---- MODULE Spec2Model ----
\* Backup / restore pipeline of tabby-bootstrap:
\*   include/s3_utils.py            shared S3, checksum and archive helpers
\*   backup/backup-db.py            db backup run
\*   backup/backup-models.py        models backup run
\*   tabby_setup/10_restore_db.py   db restore run
\*   setup/20_restore_models.py     models restore run
\*   restore/restore-models.py      models restore run (stand-alone script)
\*
\* Strings that the code slices (object keys, file names, file contents) are
\* sequences of tokens: "db-backups/db_2024-01-15.tar.zst" is
\* <<"db-backups/", "db", "_", "2024-01-15", ".tar.zst">>.  A text file's
\* content is the sequence of its tokens, runs of whitespace included.
EXTENDS Integers, Sequences, FiniteSets, TLC

\* ---------------------------------------------------------------- bounds
MaxTime == 3        \* store-reported LastModified values are 1..MaxTime
MaxPages == 2       \* a listing is split into at most MaxPages pages
MaxListed == 3      \* a listing holds at most MaxListed objects
MaxKeys == 2        \* the store returns 1..MaxKeys objects per listing page
MaxRuns == 2        \* backup runs started one after another
MaxDay == 2         \* calendar days the backup host lives through

\* ------------------------------------------------------ string fragments
DbPrefix == "db-backups/"
ModelPrefix == "model-backups/"
TarZst == ".tar.zst"
Sha256Ext == ".sha256"
IsoDate(day) == IF day = 1 THEN "2024-01-15"
                ELSE IF day = 2 THEN "2024-01-16"
                ELSE "2024-01-17"

\* str.endswith(".tar.zst")
EndsWithTarZst(key) == Len(key) > 0 /\ key[Len(key)] = TarZst

\* Python None for a key: `not key` holds of None and of the empty string;
\* object keys are never empty.
NoneKey == <<>>

\* ------------------------------------------------- find_latest_backup
\* inner loop: for obj in page.get("Contents", [])
\* `latest` is <<>> for None and <<obj>> for an object.
RECURSIVE ScanContents(_, _)
ScanContents(objs, latest) ==
    IF objs = <<>> THEN latest
    ELSE LET obj == Head(objs) IN
         ScanContents(Tail(objs),
             IF EndsWithTarZst(obj.Key)
                /\ (latest = <<>> \/ obj.LastModified > latest[1].LastModified)
             THEN <<obj>>
             ELSE latest)

\* outer loop: for page in paginator.paginate(...)
RECURSIVE ScanPages(_, _)
ScanPages(pages, latest) ==
    IF pages = <<>> THEN latest
    ELSE ScanPages(Tail(pages), ScanContents(Head(pages), latest))

\* a listing reader that stops after the first page
find_latest_backup_first_page(pages) ==
    LET latest == IF pages = <<>> THEN <<>> ELSE ScanContents(Head(pages), <<>>) IN
    IF latest # <<>> THEN latest[1].Key ELSE NoneKey

find_latest_backup(pages) ==
    LET latest == ScanPages(pages, <<>>) IN
    IF latest # <<>> THEN latest[1].Key ELSE NoneKey

\* ------------------------------------------------------------- state
VARIABLES
    store,          \* the bucket: object key -> [body, LastModified]
    clock,          \* LastModified the store gives to the next upload
    pages,          \* find_latest_backup alone: the listing handed to it
    found,          \* find_latest_backup alone: the key it returned
    fpc,            \* find_latest_backup alone: "call" | "returned"
    today,          \* backup host: the current calendar day
    bpc,            \* backup run: next step
    bscript,        \* backup run: "backup-db" | "backup-models"
    bcleanup,       \* backup run: args.cleanup
    bdate,          \* backup run: `date`, read once at line 31
    bruns,          \* backup runs started so far
    cwd,            \* backup host: local file name -> content
    bsteps,         \* backup run: <<step, outcome>> executed, in order
    blog,           \* backup run: messages logged
    bexit,          \* backup run: process exit status (-1 while running)
    rscript,        \* restore run: which entry point
    rpc,            \* restore run: next step
    rkey,           \* restore run: `key`
    tmp,            \* restore host: local file path -> content
    have_checksum,  \* restore run: `have_checksum`
    rcalls,         \* restore run: helper calls made, in order
    rlog,           \* restore run: messages logged
    rret,           \* restore run: what the run function returned
    rexit,          \* restore run: process exit status (-1 while running)
    rhome,          \* restore host: archive contents extracted under HOME
    pscript,        \* peer restore run on the same host: which entry point
    ppc,            \* peer restore run: next step
    pkey,           \* peer restore run: `key`
    phave_checksum, \* peer restore run: `have_checksum`
    pcalls,         \* peer restore run: helper calls made, in order
    pwrites,        \* peer restore run: local paths it opened for writing
    dfiles,         \* checksum helpers alone: file path -> content
    dcalls,         \* checksum helpers alone: calls made, with their results
    host,           \* archive helpers alone: what is installed on the host
    acalls,         \* archive helpers alone: calls made, with their results
    atree,          \* archive helpers alone: the members of the source tree
    amembers,       \* archive helpers alone: members each call packed/unpacked
    qvariant,       \* run_all: which of the three run_all.py scripts
    qdir,           \* run_all: the modules in its directory
    qscripts,       \* run_all: `scripts`, what discover_scripts returned
    qi,             \* run_all: index of the step the loop is at
    qpc,            \* run_all: "start" | "loop" | "exited"
    qends,          \* run_all: the steps started and how each ended
    qlog,           \* run_all: messages logged
    qexit,          \* run_all: process exit status (-1 while running)
    wpc,            \* setup/30_restore_models.py: "run" | "wait" | "exited"
    wlog,           \* setup/30_restore_models.py: lines printed
    wexit,          \* setup/30_restore_models.py: exit status (-1 while running)
    xpc,            \* second backup run, same label and date: next step
    xcwd,           \* second backup run: its local files
    xsteps,         \* second backup run: <<step, outcome>> executed
    gfiles,         \* download helpers alone: local files
    gcalls          \* download helpers alone: calls made, with what each met

storeVars == <<store, clock>>
findVars == <<pages, found, fpc>>
backupVars == <<today, bpc, bscript, bcleanup, bdate, bruns, cwd, bsteps,
                blog, bexit>>
restoreVars == <<rscript, rpc, rkey, tmp, have_checksum, rcalls, rlog, rret,
                 rexit, rhome>>
peerVars == <<pscript, ppc, pkey, phave_checksum, pcalls, pwrites>>
digestVars == <<dfiles, dcalls>>
archiveVars == <<host, acalls, atree, amembers>>
runVars == <<qvariant, qdir, qscripts, qi, qpc, qends, qlog, qexit>>
wrapVars == <<wpc, wlog, wexit>>
twinVars == <<xpc, xcwd, xsteps>>
dlVars == <<gfiles, gcalls>>
lateVars == <<runVars, wrapVars, twinVars, dlVars>>
sideVars == <<peerVars, digestVars, archiveVars, lateVars>>
vars == <<store, clock, pages, found, fpc, today, bpc, bscript, bcleanup,
          bdate, bruns, cwd, bsteps, blog, bexit, rscript, rpc, rkey, tmp,
          have_checksum, rcalls, rlog, rret, rexit, rhome, pscript, ppc, pkey,
          phave_checksum, pcalls, pwrites, dfiles, dcalls, host, acalls, atree,
          amembers, qvariant, qdir, qscripts, qi, qpc, qends, qlog, qexit,
          wpc, wlog, wexit, xpc, xcwd, xsteps, gfiles, gcalls>>

\* ------------------------------------------------------ files and objects
\* a function with an empty domain: no object, no file
Empty == [x \in {} |-> <<>>]

\* open(path, "w"/"wb") ... write
WriteFile(files, path, content) ==
    [x \in DOMAIN files \cup {path} |-> IF x = path THEN content ELSE files[x]]

\* os.remove(path)
RemoveFile(files, path) == [x \in DOMAIN files \ {path} |-> files[x]]

\* the store's put: the object at `key` is replaced and stamped
PutObject(st, key, body, t) ==
    [x \in DOMAIN st \cup {key} |->
        IF x = key THEN [body |-> body, LastModified |-> t] ELSE st[x]]

\* archive bytes: the content of a source tree at the time it was packed
Bytes == {<<"tree1">>, <<"tree2">>}
\* what an interrupted writer leaves behind: a truncated or a partial file
PartialBodies == {<<>>, <<"partial">>}

\* hashlib.sha256(...).hexdigest(): distinct contents, distinct lower-case hex
Sha256Hex(content) ==
    CASE content = <<"tree1">> -> "a1a1"
      [] content = <<"tree2">> -> "b2b2"
      [] content = <<"partial">> -> "c3c3"
      [] content = <<>> -> "e3b0"
      [] OTHER -> "ffff"

\* the digests hexdigest() can give: lower-case hex
LowerHex == {"a1a1", "b2b2", "c3c3", "e3b0", "ffff"}
\* the same hex numbers spelled in upper case and in mixed case
Upper(h) ==
    CASE h = "a1a1" -> "A1A1"
      [] h = "b2b2" -> "B2B2"
      [] h = "c3c3" -> "C3C3"
      [] h = "e3b0" -> "E3B0"
      [] OTHER -> "FFFF"
Mixed(h) ==
    CASE h = "a1a1" -> "A1a1"
      [] h = "b2b2" -> "B2b2"
      [] h = "c3c3" -> "C3c3"
      [] h = "e3b0" -> "E3b0"
      [] OTHER -> "Ffff"
HexStrings ==
    LowerHex \cup {Upper(h) : h \in LowerHex} \cup {Mixed(h) : h \in LowerHex}
\* str.lower() of a hex string
Lower(hex) ==
    IF hex \in LowerHex THEN hex
    ELSE CHOOSE h \in LowerHex : hex \in {Upper(h), Mixed(h)}

calculate_sha256(files, filepath) == Sha256Hex(files[filepath])

\* a comparison that ignores the case of the expected value
verify_sha256_any_case(files, filepath, checksum) ==
    calculate_sha256(files, filepath) = Lower(checksum)

verify_sha256(files, filepath, checksum) ==
    calculate_sha256(files, filepath) = checksum

\* ----------------------------------------------------------- key algebra
Label(script) == IF script \in {"backup-db", "10_restore_db"} THEN "db"
                 ELSE "models"
Prefix(script) == IF script \in {"backup-db", "10_restore_db"} THEN DbPrefix
                  ELSE ModelPrefix

\* archive = f"{label}_{date}.tar.zst"
ArchiveName(script, date) == <<Label(script), "_", date, TarZst>>
\* checksum_file = f"{archive}.sha256"
ChecksumName(script, date) == ArchiveName(script, date) \o <<Sha256Ext>>
\* a checksum line with a single blank between digest and file name
ChecksumLine_one_space(checksum, archive) ==
    <<checksum, " ">> \o archive \o <<"\n">>

\* f"{checksum}  {archive}\n"
ChecksumLine(checksum, archive) ==
    <<checksum, "  ">> \o archive \o <<"\n">>

\* str.split(): the tokens between runs of whitespace
NotSpace(token) == token \notin {" ", "  ", "\n"}
Split(content) == SelectSeq(content, NotSpace)

TmpDir == "/tmp/"
IsDir(token) == token \in {DbPrefix, ModelPrefix, TmpDir}

\* os.path.basename(key): what follows the last "/"
RECURSIVE Basename(_)
Basename(path) ==
    IF path = <<>> THEN <<>>
    ELSE IF \E i \in 1..Len(path) : IsDir(path[i])
         THEN Basename(Tail(path))
         ELSE path

\* key.replace(".tar.zst", ".tar.zst.sha256"): every occurrence
RECURSIVE ReplaceTarZst(_)
ReplaceTarZst(key) ==
    IF key = <<>> THEN <<>>
    ELSE (IF Head(key) = TarZst THEN <<TarZst, Sha256Ext>> ELSE <<Head(key)>>)
         \o ReplaceTarZst(Tail(key))

checksum_key(key) == ReplaceTarZst(key)
\* os.path.join(tmpdir, archive)
local_archive(key) == <<TmpDir>> \o Basename(key)
local_checksum(key) == local_archive(key) \o <<Sha256Ext>>

\* ------------------------------------------------------------ idle parts
\* each specification drives one part of the system and leaves the others idle
IdleStore == store = Empty /\ clock = 1
IdleFind == pages = <<>> /\ found = NoneKey /\ fpc = "idle"
IdleBackup ==
    /\ today = 1 /\ bpc = "idle" /\ bscript = "backup-db" /\ bcleanup = FALSE
    /\ bdate = "" /\ bruns = 0 /\ cwd = Empty /\ bsteps = <<>> /\ blog = <<>>
    /\ bexit = -1
IdleRestore ==
    /\ rscript = "10_restore_db" /\ rpc = "idle" /\ rkey = NoneKey
    /\ tmp = Empty /\ have_checksum = TRUE /\ rcalls = <<>> /\ rlog = <<>>
    /\ rret = "running" /\ rexit = -1 /\ rhome = <<>>

IdlePeer ==
    /\ pscript = "10_restore_db" /\ ppc = "idle" /\ pkey = NoneKey
    /\ phave_checksum = TRUE /\ pcalls = <<>> /\ pwrites = {}
IdleDigest == dfiles = Empty /\ dcalls = <<>>
IdleArchive == host = {} /\ acalls = <<>> /\ atree = {} /\ amembers = <<>>
IdleRun ==
    /\ qvariant = "tabby_setup" /\ qdir = {} /\ qscripts = <<>> /\ qi = 1
    /\ qpc = "idle" /\ qends = <<>> /\ qlog = <<>> /\ qexit = -1
IdleWrap == wpc = "idle" /\ wlog = <<>> /\ wexit = -1
IdleTwin == xpc = "idle" /\ xcwd = Empty /\ xsteps = <<>>
IdleDl == gfiles = Empty /\ gcalls = <<>>
IdleLate == IdleRun /\ IdleWrap /\ IdleTwin /\ IdleDl
IdleSide == IdlePeer /\ IdleDigest /\ IdleArchive /\ IdleLate

\* ------------------------------------------------------------- listings
\* every way to cut a sequence of objects into n pages (pages may be empty)
RECURSIVE Splits(_, _)
Splits(flat, n) ==
    IF n = 1 THEN {<<flat>>}
    ELSE UNION {{<<SubSeq(flat, 1, i)>> \o rest :
                    rest \in Splits(SubSeq(flat, i + 1, Len(flat)), n - 1)} :
                i \in 0..Len(flat)}

RECURSIVE Perms(_)
Perms(S) ==
    IF S = {} THEN {<<>>}
    ELSE UNION {{<<x>> \o p : p \in Perms(S \ {x})} : x \in S}

\* a paginated response: consecutive pages of `size` objects, the last one
\* shorter; an empty result is one page without Contents
RECURSIVE Chunks(_, _)
Chunks(flat, size) ==
    IF Len(flat) <= size THEN <<flat>>
    ELSE <<SubSeq(flat, 1, size)>> \o Chunks(SubSeq(flat, size + 1, Len(flat)), size)

\* list_objects_v2(Bucket, Prefix): the objects under the prefix, in the order
\* and with the page size the store chooses
StoreListings(st, prefix) ==
    LET objs == {[Key |-> k, LastModified |-> st[k].LastModified] :
                    k \in {x \in DOMAIN st : x[1] = prefix}}
    IN {Chunks(flat, size) : flat \in Perms(objs), size \in 1..MaxKeys}

\* ------------------------------------------- find_latest_backup on its own
ListKeys ==
    {<<DbPrefix, "db", "_", IsoDate(1), TarZst>>,
     <<DbPrefix, "db", "_", IsoDate(2), TarZst>>,
     <<DbPrefix, "db", "_", IsoDate(2), TarZst, Sha256Ext>>,
     <<DbPrefix, "README.md">>}
ListObjects == [Key : ListKeys, LastModified : 1..MaxTime]
DistinctKeys(flat) ==
    \A i, j \in 1..Len(flat) : i # j => flat[i].Key # flat[j].Key

\* any listing of at most MaxListed objects with distinct keys, in any order,
\* cut into at most MaxPages pages
InitFind ==
    /\ IdleStore /\ IdleBackup /\ IdleRestore /\ IdleSide
    /\ \E n \in 0..MaxListed : \E flat \in [1..n -> ListObjects] :
          /\ DistinctKeys(flat)
          /\ \E np \in 1..MaxPages : pages \in Splits(flat, np)
    /\ found = NoneKey
    /\ fpc = "call"

F_FindLatest ==
    /\ fpc = "call"
    /\ found' = find_latest_backup(pages)
    /\ fpc' = "returned"
    /\ UNCHANGED <<pages, storeVars, backupVars, restoreVars, sideVars>>

NextFind == F_FindLatest
SpecFind == InitFind /\ [][NextFind]_vars

\* ---------------------------------------------------------- restore runs
RestoreScripts == {"10_restore_db", "20_restore_models", "restore-models"}

Append2(seq, a, b) == Append(Append(seq, a), b)
Call(op, target, out) == [op |-> op, target |-> target, out |-> out]

\* include.s3_utils.download_file: head_object, open(local_path, "wb"),
\* download_fileobj.  The set of <<outcome, local files afterwards>>.
download_file(st, files, key, local_path) ==
    \* head_object raises: nothing was opened yet
    (IF key \notin DOMAIN st THEN {[out |-> "NotFound", files |-> files]} ELSE {})
    \cup {[out |-> e, files |-> files] : e \in {"ClientError", "OtherError"}}
    \* download_fileobj raises after the file was opened for writing
    \cup (IF key \in DOMAIN st
          THEN {[out |-> e, files |-> WriteFile(files, local_path, p)] :
                    e \in {"ClientError", "OtherError"}, p \in PartialBodies}
          ELSE {})
    \cup (IF key \in DOMAIN st
          THEN {[out |-> "ok", files |-> WriteFile(files, local_path, st[key].body)]}
          ELSE {})

\* 20_restore_models.download_file_with_progress: a failing head_object is
\* swallowed; the file is opened (truncated) before get_object is called.
download_file_with_progress(st, files, key, dest_path) ==
    (IF key \notin DOMAIN st
     THEN {[out |-> "NotFound", files |-> WriteFile(files, dest_path, <<>>)]}
     ELSE {})
    \cup {[out |-> e, files |-> WriteFile(files, dest_path, <<>>)] :
            e \in {"ClientError", "OtherError"}}
    \* body.read raises in the middle of the stream
    \cup (IF key \in DOMAIN st
          THEN {[out |-> "OtherError", files |-> WriteFile(files, dest_path, p)] :
                    p \in PartialBodies}
          ELSE {})
    \cup (IF key \in DOMAIN st
          THEN {[out |-> "ok", files |-> WriteFile(files, dest_path, st[key].body)]}
          ELSE {})

Download(script, st, files, key, path) ==
    IF script = "20_restore_models"
    THEN download_file_with_progress(st, files, key, path)
    ELSE download_file(st, files, key, path)

\* what the run hands back on an expected failure: restore_db and
\* restore_models `return False`, restore-models.py main does a bare `return`
FailureValue(script) == IF script = "restore-models" THEN "None" ELSE "False"
\* ... and on success: `return True`, or falling off the end of main
SuccessValue(script) == IF script = "restore-models" THEN "None" ELSE "True"

\* process exit status: main() of 10_restore_db / 20_restore_models calls
\* sys.exit(1) when the run returned False; restore-models.py only calls
\* main(); an uncaught exception ends any of them with status 1
ExitStatus(script, ret) ==
    IF ret = "raised" THEN 1
    ELSE IF script = "restore-models" THEN 0
    ELSE IF ret = "False" THEN 1 ELSE 0

\* the run ends here
Finish(ret) ==
    /\ rpc' = "exited"
    /\ rret' = ret
    /\ rexit' = ExitStatus(rscript, ret)

\* the archive keys, sidecars and by-standers a bucket may hold for a script
RestoreKey(script, day) == <<Prefix(script)>> \o ArchiveName(script, IsoDate(day))
\* an archive kept under a second name: ".tar.zst" occurs twice in the key
RenamedKey(script) ==
    <<Prefix(script), Label(script), "_", IsoDate(1), TarZst, ".old", TarZst>>
OtherPrefix(script) == IF Prefix(script) = DbPrefix THEN ModelPrefix ELSE DbPrefix
ArchiveObjects == {<<>>} \cup {<<[body |-> b, LastModified |-> t]>> :
                                b \in Bytes, t \in 1..MaxTime}
SidecarObjects(name) ==
    {<<>>, <<[body |-> <<>>, LastModified |-> MaxTime]>>,
     <<[body |-> <<"\n">>, LastModified |-> MaxTime]>>}
    \cup {<<[body |-> ChecksumLine(Sha256Hex(b), name), LastModified |-> MaxTime]>> :
            b \in Bytes}
BystanderObjects == {<<>>, <<[body |-> <<"text">>, LastModified |-> MaxTime]>>}
AddObject(st, key, opt) == IF opt = <<>> THEN st ELSE WriteFile(st, key, opt[1])

InitRestore ==
    /\ IdleFind /\ IdleBackup /\ IdleSide
    /\ clock = MaxTime + 1
    /\ rscript \in RestoreScripts
    /\ \E a1, a2 \in ArchiveObjects, x \in BystanderObjects :
       \E k2 \in {RestoreKey(rscript, 2), RenamedKey(rscript)} :
       \E s1 \in SidecarObjects(ArchiveName(rscript, IsoDate(1))),
          s2 \in SidecarObjects(Basename(k2)) :
          store = AddObject(AddObject(AddObject(AddObject(AddObject(
                    Empty,
                    RestoreKey(rscript, 1), a1),
                    k2, a2),
                    RestoreKey(rscript, 1) \o <<Sha256Ext>>, s1),
                    k2 \o <<Sha256Ext>>, s2),
                    <<OtherPrefix(rscript), "models", "_", IsoDate(2), TarZst>>, x)
    /\ rpc = "start" /\ rkey = NoneKey /\ tmp = Empty /\ have_checksum = TRUE
    /\ rcalls = <<>> /\ rlog = <<>> /\ rret = "running" /\ rexit = -1
    /\ rhome = <<>>

\* get_s3_client, find_latest_backup, `if not key`
R_FindLatest ==
    /\ rpc = "start"
    /\ \/ \* get_s3_client or the listing raises
          /\ rcalls' = Append(rcalls, Call("find_latest_backup", <<Prefix(rscript)>>, "raised"))
          /\ Finish("raised")
          /\ UNCHANGED <<rkey, rlog>>
       \/ \E listing \in StoreListings(store, Prefix(rscript)) :
          LET key == find_latest_backup(listing) IN
          /\ rcalls' = Append(rcalls, Call("find_latest_backup", <<Prefix(rscript)>>, "ok"))
          /\ rkey' = key
          /\ IF key = NoneKey
             THEN /\ rlog' = Append(rlog, "No backup found.")
                  /\ Finish(FailureValue(rscript))
             ELSE /\ rlog' = Append(rlog, "Found latest backup")
                  /\ rpc' = "download_archive"
                  /\ UNCHANGED <<rret, rexit>>
    /\ UNCHANGED <<rscript, tmp, have_checksum, rhome>>
    /\ UNCHANGED <<storeVars, findVars, backupVars, sideVars>>

\* download_file(s3, bucket, key, local_archive)
R_DownloadArchive ==
    /\ rpc = "download_archive"
    /\ \E r \in Download(rscript, store, tmp, rkey, local_archive(rkey)) :
          /\ tmp' = r.files
          /\ rcalls' = Append(rcalls, Call("download", rkey, r.out))
          /\ IF r.out = "ok"
             THEN /\ rlog' = Append(rlog, "Downloaded archive")
                  /\ rpc' = "download_checksum"
                  /\ UNCHANGED <<rret, rexit>>
             ELSE /\ Finish("raised")
                  /\ UNCHANGED rlog
    /\ UNCHANGED <<rscript, rkey, have_checksum, rhome>>
    /\ UNCHANGED <<storeVars, findVars, backupVars, sideVars>>

\* a sidecar download that lets every failure propagate
R_DownloadChecksum_strict ==
    /\ rpc = "download_checksum"
    /\ \E r \in Download(rscript, store, tmp, checksum_key(rkey), local_checksum(rkey)) :
          /\ tmp' = r.files
          /\ rcalls' = Append(rcalls, Call("download", checksum_key(rkey), r.out))
          /\ IF r.out = "ok"
             THEN /\ rlog' = Append(rlog, "Downloaded checksum")
                  /\ have_checksum' = TRUE
                  /\ rpc' = "verify"
                  /\ UNCHANGED <<rret, rexit>>
             ELSE /\ Finish("raised")
                  /\ UNCHANGED <<rlog, have_checksum>>
    /\ UNCHANGED <<rscript, rkey, rhome>>
    /\ UNCHANGED <<storeVars, findVars, backupVars, sideVars>>

\* try: download_file(s3, bucket, checksum_key, local_checksum)
\* except botocore.exceptions.ClientError: have_checksum = False
R_DownloadChecksum ==
    /\ rpc = "download_checksum"
    /\ \E r \in Download(rscript, store, tmp, checksum_key(rkey), local_checksum(rkey)) :
          /\ tmp' = r.files
          /\ rcalls' = Append(rcalls, Call("download", checksum_key(rkey), r.out))
          /\ CASE r.out = "ok" ->
                    /\ rlog' = Append(rlog, "Downloaded checksum")
                    /\ have_checksum' = TRUE
                    /\ rpc' = "verify"
                    /\ UNCHANGED <<rret, rexit>>
               [] r.out \in {"NotFound", "ClientError"} ->
                    /\ rlog' = Append(rlog, "No checksum file found, skipping verification.")
                    /\ have_checksum' = FALSE
                    /\ rpc' = "extract"
                    /\ UNCHANGED <<rret, rexit>>
               [] OTHER ->
                    /\ Finish("raised")
                    /\ UNCHANGED <<rlog, have_checksum>>
    /\ UNCHANGED <<rscript, rkey, rhome>>
    /\ UNCHANGED <<storeVars, findVars, backupVars, sideVars>>

\* a verification that takes a sidecar without a token for no sidecar
R_Verify_lenient ==
    /\ rpc = "verify"
    /\ have_checksum
    /\ LET tokens == Split(tmp[local_checksum(rkey)]) IN
       IF tokens = <<>>
       THEN /\ rpc' = "extract"
            /\ UNCHANGED <<rlog, rcalls, rret, rexit>>
       ELSE LET expected == tokens[1] IN
            IF verify_sha256(tmp, local_archive(rkey), expected)
            THEN /\ rlog' = Append2(rlog, "Verifying checksum ...", "Checksum OK.")
                 /\ rcalls' = Append(rcalls, Call("verify_sha256", local_archive(rkey), "True"))
                 /\ rpc' = "extract"
                 /\ UNCHANGED <<rret, rexit>>
            ELSE /\ rlog' = Append2(rlog, "Verifying checksum ...", "Checksum mismatch! Aborting.")
                 /\ rcalls' = Append(rcalls, Call("verify_sha256", local_archive(rkey), "False"))
                 /\ Finish(FailureValue(rscript))
    /\ UNCHANGED <<rscript, rkey, tmp, have_checksum, rhome>>
    /\ UNCHANGED <<storeVars, findVars, backupVars, sideVars>>

\* if have_checksum: expected = f.read().split()[0]; verify_sha256(...)
R_Verify ==
    /\ rpc = "verify"
    /\ have_checksum
    /\ LET tokens == Split(tmp[local_checksum(rkey)]) IN
       IF tokens = <<>>
       THEN \* split()[0] of an empty file: IndexError
            /\ Finish("raised")
            /\ UNCHANGED <<rlog, rcalls>>
       ELSE LET expected == tokens[1] IN
            IF verify_sha256(tmp, local_archive(rkey), expected)
            THEN /\ rlog' = Append2(rlog, "Verifying checksum ...", "Checksum OK.")
                 /\ rcalls' = Append(rcalls, Call("verify_sha256", local_archive(rkey), "True"))
                 /\ rpc' = "extract"
                 /\ UNCHANGED <<rret, rexit>>
            ELSE /\ rlog' = Append2(rlog, "Verifying checksum ...", "Checksum mismatch! Aborting.")
                 /\ rcalls' = Append(rcalls, Call("verify_sha256", local_archive(rkey), "False"))
                 /\ Finish(FailureValue(rscript))
    /\ UNCHANGED <<rscript, rkey, tmp, have_checksum, rhome>>
    /\ UNCHANGED <<storeVars, findVars, backupVars, sideVars>>

\* extract_archive_to_home(local_archive): returns after unpacking the
\* archive under HOME, or raises
extract_archive_to_home(files, archive_path) ==
    {[out |-> "ok", unpacked |-> <<files[archive_path]>>],
     [out |-> "raised", unpacked |-> <<>>]}

\* an extraction that is tried again after it raised
R_Extract_retry ==
    /\ rpc = "extract"
    /\ Len(rcalls) < 8
    /\ \E r \in extract_archive_to_home(tmp, local_archive(rkey)) :
          /\ rcalls' = Append(rcalls, Call("extract_archive_to_home", local_archive(rkey), r.out))
          /\ rhome' = rhome \o r.unpacked
          /\ IF r.out = "ok"
             THEN /\ rlog' = Append(rlog, "Restore complete")
                  /\ Finish(SuccessValue(rscript))
             ELSE UNCHANGED <<rlog, rpc, rret, rexit>>
    /\ UNCHANGED <<rscript, rkey, tmp, have_checksum>>
    /\ UNCHANGED <<storeVars, findVars, backupVars, sideVars>>

\* extract_archive_to_home(local_archive); log("Restore complete ..."); return True
R_Extract ==
    /\ rpc = "extract"
    /\ \E r \in extract_archive_to_home(tmp, local_archive(rkey)) :
          /\ rcalls' = Append(rcalls, Call("extract_archive_to_home", local_archive(rkey), r.out))
          /\ rhome' = rhome \o r.unpacked
          /\ IF r.out = "ok"
             THEN /\ rlog' = Append(rlog, "Restore complete")
                  /\ Finish(SuccessValue(rscript))
             ELSE /\ Finish("raised")
                  /\ UNCHANGED rlog
    /\ UNCHANGED <<rscript, rkey, tmp, have_checksum>>
    /\ UNCHANGED <<storeVars, findVars, backupVars, sideVars>>

NextRestore ==
    \/ R_FindLatest
    \/ R_DownloadArchive
    \/ R_DownloadChecksum
    \/ R_Verify
    \/ R_Extract
SpecRestore == InitRestore /\ [][NextRestore]_vars

\* A restore run is one sequential process: as long as a step is left to
\* take, the process takes it (every call returns or raises).
SpecRestoreLive == InitRestore /\ [][NextRestore]_vars /\ WF_vars(NextRestore)

\* ------------------------------------- two restore runs on the same host
\* A second restore run of the same prefix, started by another process of the
\* same user: the same code on its own locals, sharing the bucket, the
\* temporary directory (tempfile.gettempdir()) and HOME with the first run.
PeerIdle ==
    UNCHANGED <<rscript, rpc, rkey, have_checksum, rcalls, rlog, rret, rexit>>
PeerOthersIdle ==
    UNCHANGED <<storeVars, findVars, backupVars, digestVars, archiveVars, lateVars>>

\* the local paths a download opened for writing
Opened(before, r, path) ==
    IF r.out = "ok" \/ r.files # before THEN {path} ELSE {}

InitPeers ==
    /\ IdleFind /\ IdleBackup /\ IdleDigest /\ IdleArchive /\ IdleLate
    /\ clock = MaxTime + 1
    /\ rscript \in RestoreScripts
    /\ pscript \in {s \in RestoreScripts : Prefix(s) = Prefix(rscript)}
    /\ \E b \in Bytes :
       \E s1 \in SidecarObjects(ArchiveName(rscript, IsoDate(1))) :
          store = AddObject(AddObject(Empty,
                    RestoreKey(rscript, 1), <<[body |-> b, LastModified |-> 1]>>),
                    RestoreKey(rscript, 1) \o <<Sha256Ext>>, s1)
    /\ rpc = "start" /\ rkey = NoneKey /\ tmp = Empty /\ have_checksum = TRUE
    /\ rcalls = <<>> /\ rlog = <<>> /\ rret = "running" /\ rexit = -1
    /\ rhome = <<>>
    /\ ppc = "start" /\ pkey = NoneKey /\ phave_checksum = TRUE
    /\ pcalls = <<>> /\ pwrites = {}

\* get_s3_client, find_latest_backup, `if not key`
P_FindLatest ==
    /\ ppc = "start"
    /\ \/ /\ pcalls' = Append(pcalls, Call("find_latest_backup", <<Prefix(pscript)>>, "raised"))
          /\ ppc' = "exited"
          /\ UNCHANGED pkey
       \/ \E listing \in StoreListings(store, Prefix(pscript)) :
          LET key == find_latest_backup(listing) IN
          /\ pcalls' = Append(pcalls, Call("find_latest_backup", <<Prefix(pscript)>>, "ok"))
          /\ pkey' = key
          /\ ppc' = IF key = NoneKey THEN "exited" ELSE "download_archive"
    /\ UNCHANGED <<pscript, phave_checksum, pwrites, tmp, rhome>>
    /\ PeerIdle /\ PeerOthersIdle

\* download_file(s3, bucket, key, local_archive)
P_DownloadArchive ==
    /\ ppc = "download_archive"
    /\ \E r \in Download(pscript, store, tmp, pkey, local_archive(pkey)) :
          /\ tmp' = r.files
          /\ pwrites' = pwrites \cup Opened(tmp, r, local_archive(pkey))
          /\ pcalls' = Append(pcalls, Call("download", pkey, r.out))
          /\ ppc' = IF r.out = "ok" THEN "download_checksum" ELSE "exited"
    /\ UNCHANGED <<pscript, pkey, phave_checksum, rhome>>
    /\ PeerIdle /\ PeerOthersIdle

\* try: download_file(s3, bucket, checksum_key, local_checksum)
\* except botocore.exceptions.ClientError: have_checksum = False
P_DownloadChecksum ==
    /\ ppc = "download_checksum"
    /\ \E r \in Download(pscript, store, tmp, checksum_key(pkey), local_checksum(pkey)) :
          /\ tmp' = r.files
          /\ pwrites' = pwrites \cup Opened(tmp, r, local_checksum(pkey))
          /\ pcalls' = Append(pcalls, Call("download", checksum_key(pkey), r.out))
          /\ CASE r.out = "ok" ->
                    phave_checksum' = TRUE /\ ppc' = "verify"
               [] r.out \in {"NotFound", "ClientError"} ->
                    phave_checksum' = FALSE /\ ppc' = "extract"
               [] OTHER ->
                    ppc' = "exited" /\ UNCHANGED phave_checksum
    /\ UNCHANGED <<pscript, pkey, rhome>>
    /\ PeerIdle /\ PeerOthersIdle

\* if have_checksum: expected = f.read().split()[0]; verify_sha256(...)
P_Verify ==
    /\ ppc = "verify"
    /\ phave_checksum
    /\ LET tokens == Split(tmp[local_checksum(pkey)]) IN
       IF tokens = <<>>
       THEN ppc' = "exited" /\ UNCHANGED pcalls
       ELSE IF verify_sha256(tmp, local_archive(pkey), tokens[1])
            THEN /\ pcalls' = Append(pcalls, Call("verify_sha256", local_archive(pkey), "True"))
                 /\ ppc' = "extract"
            ELSE /\ pcalls' = Append(pcalls, Call("verify_sha256", local_archive(pkey), "False"))
                 /\ ppc' = "exited"
    /\ UNCHANGED <<pscript, pkey, phave_checksum, pwrites, tmp, rhome>>
    /\ PeerIdle /\ PeerOthersIdle

\* extract_archive_to_home(local_archive)
P_Extract ==
    /\ ppc = "extract"
    /\ \E r \in extract_archive_to_home(tmp, local_archive(pkey)) :
          /\ pcalls' = Append(pcalls, Call("extract_archive_to_home", local_archive(pkey), r.out))
          /\ rhome' = rhome \o r.unpacked
          /\ ppc' = "exited"
    /\ UNCHANGED <<pscript, pkey, phave_checksum, pwrites, tmp>>
    /\ PeerIdle /\ PeerOthersIdle

NextPeers ==
    \/ R_FindLatest
    \/ R_DownloadArchive
    \/ R_DownloadChecksum
    \/ R_Verify
    \/ R_Extract
    \/ P_FindLatest
    \/ P_DownloadArchive
    \/ P_DownloadChecksum
    \/ P_Verify
    \/ P_Extract
SpecPeers == InitPeers /\ [][NextPeers]_vars

\* ------------------------------------------------- checksum helpers alone
MaxCalls == 2       \* calls made on one file

DigestPath == <<TmpDir, "db", "_", IsoDate(1), TarZst>>
FileContents == Bytes \cup PartialBodies \cup {<<"other">>}
DCall(op, checksum, result) == [op |-> op, checksum |-> checksum, result |-> result]

\* a file of any content, or no file at all, and no call made yet
InitDigest ==
    /\ IdleStore /\ IdleFind /\ IdleBackup /\ IdleRestore
    /\ IdlePeer /\ IdleArchive /\ IdleLate
    /\ dfiles \in {Empty} \cup {WriteFile(Empty, DigestPath, c) : c \in FileContents}
    /\ dcalls = <<>>

\* calculate_sha256(filepath): os.path.getsize / open(filepath, "rb") raise
\* when the file does not exist; the file is only read
D_Calculate ==
    /\ Len(dcalls) < MaxCalls
    /\ dcalls' = Append(dcalls, DCall("calculate_sha256", "",
                    IF DigestPath \in DOMAIN dfiles
                    THEN calculate_sha256(dfiles, DigestPath)
                    ELSE "raised"))
    /\ UNCHANGED dfiles
    /\ UNCHANGED <<storeVars, findVars, backupVars, restoreVars, peerVars,
                   archiveVars, lateVars>>

\* verify_sha256(filepath, checksum)
D_Verify ==
    /\ Len(dcalls) < MaxCalls
    /\ \E checksum \in HexStrings :
          dcalls' = Append(dcalls, DCall("verify_sha256", checksum,
                    IF DigestPath \notin DOMAIN dfiles THEN "raised"
                    ELSE IF verify_sha256(dfiles, DigestPath, checksum)
                         THEN "True" ELSE "False"))
    /\ UNCHANGED dfiles
    /\ UNCHANGED <<storeVars, findVars, backupVars, restoreVars, peerVars,
                   archiveVars, lateVars>>

NextDigest == D_Calculate \/ D_Verify
SpecDigest == InitDigest /\ [][NextDigest]_vars

\* -------------------------------------------------- archive helpers alone
\* Local paths are sequences of "/" and of path components.
Home == <<"/", "home", "/", "user">>
Cwd == <<"/", "home", "/", "user", "/", "work">>
\* what may be installed: the programs shutil.which and tar look up on PATH,
\* and the zstandard module
Installable == {"tar", "zstd", "unzstd", "zstandard"}
\* the entries of the file system root
RootEntries == {"home", "etc"}

\* os.path.expanduser
expanduser(path) ==
    IF path # <<>> /\ Head(path) = "~" THEN Home \o Tail(path) ELSE path

IsComponent(token) == token # "/"
\* a component that names a directory entry; os.getcwd() and "/" are no links
IsName(token) == token \notin {"/", ".", ".."}
\* normpath: "." is dropped, ".." drops the component before it
RECURSIVE Resolve(_, _)
Resolve(comps, acc) ==
    IF comps = <<>> THEN acc
    ELSE IF Head(comps) = "." THEN Resolve(Tail(comps), acc)
    ELSE IF Head(comps) = ".."
         THEN Resolve(Tail(comps),
                      IF acc = <<>> THEN acc ELSE SubSeq(acc, 1, Len(acc) - 1))
         ELSE Resolve(Tail(comps), Append(acc, Head(comps)))
RECURSIVE Render(_)
Render(comps) ==
    IF comps = <<>> THEN <<"/">>
    ELSE IF Len(comps) = 1 THEN <<"/", comps[1]>>
    ELSE <<"/", Head(comps)>> \o Render(Tail(comps))

\* os.path.abspath: normpath(join(os.getcwd(), path))
abspath(path) ==
    IF path # <<>> /\ Head(path) = "/"
    THEN Render(Resolve(SelectSeq(path, IsComponent), <<>>))
    ELSE Render(Resolve(SelectSeq(Cwd \o <<"/">> \o path, IsComponent), <<>>))

\* index of the last "/" of a path, 0 when there is none
LastSlash(path) ==
    IF \E i \in 1..Len(path) : path[i] = "/"
    THEN CHOOSE i \in 1..Len(path) :
            path[i] = "/" /\ \A j \in (i + 1)..Len(path) : path[j] # "/"
    ELSE 0
\* os.path.dirname: up to the last "/", without it unless it is the root
os_path_dirname(path) ==
    IF LastSlash(path) <= 1 THEN SubSeq(path, 1, LastSlash(path))
    ELSE SubSeq(path, 1, LastSlash(path) - 1)
\* os.path.basename: what follows the last "/", "" when nothing does
os_path_basename(path) ==
    IF LastSlash(path) = Len(path) THEN "" ELSE path[Len(path)]

has_system_tar_zstd(hst) == "tar" \in hst /\ "zstd" \in hst

Entry(name, kind) == [name |-> name, kind |-> kind]
ACall(op, src_dir, kind, io_ok, path, out, entries) ==
    [op |-> op, src_dir |-> src_dir, kind |-> kind, io_ok |-> io_ok,
     path |-> path, out |-> out, entries |-> entries]

\* create_archive(src_dir, archive_path): the path taken, the outcome and the
\* top-level entries of the archive.  `kind` is what src_dir names: a
\* directory or a symbolic link to one; `io_ok` whether reading the tree and
\* writing the archive go through.
create_archive(hst, src_dir, kind, io_ok) ==
    LET src == abspath(expanduser(src_dir))
        parent == os_path_dirname(src)
        base == os_path_basename(src)
    IN IF has_system_tar_zstd(hst)
       THEN \* tar -I "zstd -T0 -19" -cvhf archive_path -C parent base:
            \* -h follows symbolic links; an empty member name is an error
            IF base # "" /\ io_ok
            THEN ACall("create_archive", src_dir, kind, io_ok, "external", "ok",
                       {Entry(base, "dir")})
            ELSE ACall("create_archive", src_dir, kind, io_ok, "external",
                       "CalledProcessError", {})
       ELSE IF "zstandard" \notin hst
       THEN ACall("create_archive", src_dir, kind, io_ok, "in-process",
                  "RuntimeError", {})
       ELSE IF ~io_ok
       THEN ACall("create_archive", src_dir, kind, io_ok, "in-process", "OSError", {})
       ELSE \* tar.add(src_dir, arcname=base): a link is stored as a link;
            \* the members of a directory are added as join(arcname, name)
            ACall("create_archive", src_dir, kind, io_ok, "in-process", "ok",
                  IF kind = "symlink" THEN {Entry(base, "symlink")}
                  ELSE IF base = ""
                       THEN {Entry("", "dir")} \cup {Entry(n, "dir") : n \in RootEntries}
                       ELSE {Entry(base, "dir")})

\* extract_archive(archive_path, dest_dir): the path taken, the outcome and
\* the entries unpacked under dest_dir
extract_archive(hst, entries, io_ok) ==
    IF has_system_tar_zstd(hst)
    THEN \* tar --use-compress-program=unzstd -xvf archive_path -C dest_dir
         IF "unzstd" \in hst /\ io_ok
         THEN ACall("extract_archive", <<>>, "dir", io_ok, "external", "ok", entries)
         ELSE ACall("extract_archive", <<>>, "dir", io_ok, "external",
                    "CalledProcessError", {})
    ELSE IF "zstandard" \notin hst
    THEN ACall("extract_archive", <<>>, "dir", io_ok, "in-process", "RuntimeError", {})
    ELSE IF ~io_ok
    THEN ACall("extract_archive", <<>>, "dir", io_ok, "in-process", "OSError", {})
    ELSE ACall("extract_archive", <<>>, "dir", io_ok, "in-process", "ok", entries)

\* a member of a directory tree, by its path relative to the root of the
\* tree: a file and its bytes, a directory, or a symbolic link and the member
\* it points to
Member(path, kind, data) == [path |-> path, kind |-> kind, data |-> data]
PlainTree ==
    {Member(<<"a.txt">>, "file", "x"),
     Member(<<"sub">>, "dir", ""),
     Member(<<"sub", "b.txt">>, "file", "y")}
\* a tree like ~/tabbyclassmodels: models/, and names that resemble it
ModelsTree ==
    {Member(<<"db.sqlite">>, "file", "d"),
     Member(<<"models">>, "dir", ""),
     Member(<<"models", "m.bin">>, "file", "m"),
     Member(<<"models_old">>, "dir", ""),
     Member(<<"models_old", "o.bin">>, "file", "o"),
     Member(<<"ee">>, "dir", ""),
     Member(<<"ee", "models.txt">>, "file", "t")}
Trees ==
    {{},
     PlainTree,
     PlainTree \cup {Member(<<"empty">>, "dir", "")},
     PlainTree \cup {Member(<<"ln">>, "symlink", "a.txt")},
     ModelsTree}

\* tar -h stores what a link points to in place of the link
Deref(tree, m) ==
    IF m.kind = "symlink" /\ \E t \in tree : t.path = <<m.data>>
    THEN LET t == CHOOSE t \in tree : t.path = <<m.data>>
         IN Member(m.path, t.kind, t.data)
    ELSE m

\* the members a successful create_archive stores under the root entry
pack_members(hst, kind, tree) ==
    IF has_system_tar_zstd(hst) THEN {Deref(tree, m) : m \in tree}
    ELSE IF kind = "symlink" THEN {}
    ELSE tree

\* the members a successful extract_archive writes: tar -x and
\* tar.extractall recreate every member of the archive
unpack_members(hst, members) == members

\* names that hold the text `models`
HoldsModels(name) == name \in {"models", "models_old", "models.txt"}
\* an exclusion that matches every path with `models` somewhere in it
Excluded_substring(path, exclusions) ==
    \E i \in 1..Len(path) : "models" \in exclusions /\ HoldsModels(path[i])

\* a relative path is excluded when it is an exclusion or lies under one
Excluded(path, exclusions) == path # <<>> /\ Head(path) \in exclusions

\* create_archive_from_home_include_tabbyclassmodels(archive_path,
\* include_models): the members stored under tabbyclassmodels/
home_archive_members(members, include_models) ==
    IF include_models THEN members
    ELSE {m \in members : ~Excluded(m.path, {"models"})}

\* source directories as callers may spell them
SrcDirs ==
    {<<"/", "home", "/", "user", "/", "tabbyclassmodels">>,
     <<"/", "home", "/", "user", "/", "tabbyclassmodels", "/">>,
     <<"~", "/", "tabbyclassmodels">>,
     <<"~", "/", "tabbyclassmodels", "/">>,
     <<"~">>,
     <<"data">>,
     <<".", "/", "data", "/">>,
     <<"..", "/", "tabbyclassmodels">>,
     <<".">>,
     <<"/">>,
     <<"..", "/", "..", "/", "..">>}
\* an archive made elsewhere, as a backup run uploads it
StockArchive == {Entry("tabbyclassmodels", "dir")}

InitArchive ==
    /\ IdleStore /\ IdleFind /\ IdleBackup /\ IdleRestore
    /\ IdlePeer /\ IdleDigest /\ IdleLate
    /\ host \in SUBSET Installable
    /\ acalls = <<>>
    /\ atree \in Trees
    /\ amembers = <<>>

ArchiveOthersIdle ==
    UNCHANGED <<storeVars, findVars, backupVars, restoreVars, peerVars, digestVars,
                lateVars>>

A_Create ==
    /\ acalls = <<>>
    /\ \E src_dir \in SrcDirs, io_ok \in BOOLEAN :
       \E kind \in (IF SelectSeq(src_dir, IsName) = <<>> THEN {"dir"}
                    ELSE {"dir", "symlink"}) :
       LET c == create_archive(host, src_dir, kind, io_ok) IN
          /\ acalls' = Append(acalls, c)
          /\ amembers' = Append(amembers,
                IF c.out = "ok" THEN pack_members(host, kind, atree) ELSE {})
    /\ UNCHANGED <<host, atree>>
    /\ ArchiveOthersIdle

\* the archive just created, or a stock one, is unpacked
A_Extract ==
    /\ Len(acalls) <= 1
    /\ \A i \in 1..Len(acalls) : acalls[i].op = "create_archive"
    /\ \E io_ok \in BOOLEAN :
       LET created == acalls # <<>> /\ acalls[1].out = "ok"
           e == extract_archive(host,
                    IF created THEN acalls[1].entries ELSE StockArchive, io_ok)
       IN /\ acalls' = Append(acalls, e)
          /\ amembers' = Append(amembers,
                IF e.out # "ok" THEN {}
                ELSE unpack_members(host, IF created THEN amembers[1] ELSE PlainTree))
    /\ UNCHANGED <<host, atree>>
    /\ ArchiveOthersIdle

\* backup-db.py line 37: the archive of ~/tabbyclassmodels without models/
A_CreateFromHome ==
    /\ acalls = <<>>
    /\ \E io_ok \in BOOLEAN :
       LET c == create_archive(host, <<"~", "/", "tabbyclassmodels">>, "dir", io_ok) IN
          /\ acalls' = Append(acalls, [c EXCEPT !.op = "create_archive_from_home"])
          /\ amembers' = Append(amembers,
                IF c.out # "ok" THEN {}
                ELSE home_archive_members(pack_members(host, "dir", atree), FALSE))
    /\ UNCHANGED <<host, atree>>
    /\ ArchiveOthersIdle

NextArchive == A_Create \/ A_Extract \/ A_CreateFromHome
SpecArchive == InitArchive /\ [][NextArchive]_vars

\* ----------------------------------------------------------- backup runs
BackupScripts == {"backup-db", "backup-models"}

Step(name, out) == <<name, out>>
\* the run ends here: status 0 when main returns, 1 on an uncaught exception
BFinish(status) == bpc' = "exited" /\ bexit' = status

\* create_archive_from_home_include_tabbyclassmodels(archive_path=archive,
\* include_models=False): packs the tree as it is now, or raises and leaves
\* nothing or an unfinished file
create_archive_from_home_include_tabbyclassmodels(files, archive_path) ==
    {[out |-> "ok", files |-> WriteFile(files, archive_path, b)] : b \in Bytes}
    \cup {[out |-> "fail", files |-> files]}
    \cup {[out |-> "fail", files |-> WriteFile(files, archive_path, p)] :
            p \in PartialBodies}

\* ensure_system_tar_zstd(): raises when tar or zstd is not installed
ensure_system_tar_zstd == {"ok", "ToolMissing"}

\* tar run first and the tools only checked afterwards
tar_models_check_last(files, archive_path) ==
    {[out |-> "ToolMissing", files |-> WriteFile(files, archive_path, p)] :
        t \in ensure_system_tar_zstd \ {"ok"}, p \in PartialBodies}
    \cup {[out |-> "ok", files |-> WriteFile(files, archive_path, b)] : b \in Bytes}
    \cup {[out |-> "fail", files |-> WriteFile(files, archive_path, p)] :
            p \in PartialBodies}

\* backup-models.py lines 37-41: the tool check, then tar through
\* subprocess.run(cmd, check=True)
tar_models(files, archive_path) ==
    {[out |-> "ToolMissing", files |-> files] :
        t \in ensure_system_tar_zstd \ {"ok"}}
    \cup {[out |-> "ok", files |-> WriteFile(files, archive_path, b)] : b \in Bytes}
    \cup {[out |-> "fail", files |-> WriteFile(files, archive_path, p)] :
            p \in PartialBodies}

\* an upload that reports success with only part of the file stored
upload_file_torn(st, files, key, local_path, t) ==
    {[out |-> "ok", store |-> PutObject(st, key, p, t)] : p \in PartialBodies}
    \cup {[out |-> "fail", store |-> st]}

\* include.s3_utils.upload_file: the object appears in the store when
\* upload_fileobj returns, and not at all when anything raises
upload_file(st, files, key, local_path, t) ==
    {[out |-> "ok", store |-> PutObject(st, key, files[local_path], t)],
     [out |-> "fail", store |-> st]}

archive == ArchiveName(bscript, bdate)
checksum_file == ChecksumName(bscript, bdate)

InitBackup ==
    /\ IdleStore /\ IdleFind /\ IdleRestore /\ IdleSide
    /\ today = 1 /\ bpc = "idle" /\ bscript = "backup-db" /\ bcleanup = FALSE
    /\ bdate = "" /\ bruns = 0 /\ cwd = Empty /\ bsteps = <<>> /\ blog = <<>>
    /\ bexit = -1

\* midnight passes on the backup host
B_Tick ==
    /\ today < MaxDay
    /\ today' = today + 1
    /\ UNCHANGED <<bpc, bscript, bcleanup, bdate, bruns, cwd, bsteps, blog, bexit>>
    /\ UNCHANGED <<storeVars, findVars, restoreVars, sideVars>>

\* main: parse_args, date = datetime.date.today().isoformat()
B_Start ==
    /\ bpc \in {"idle", "exited"}
    /\ bruns < MaxRuns
    /\ bruns' = bruns + 1
    /\ bscript' \in BackupScripts
    /\ bcleanup' \in BOOLEAN
    /\ bdate' = IsoDate(today)
    /\ bsteps' = <<>>
    /\ blog' = <<>>
    /\ bexit' = -1
    /\ bpc' = "archive"
    /\ UNCHANGED <<today, cwd>>
    /\ UNCHANGED <<storeVars, findVars, restoreVars, sideVars>>

\* ARCHIVE
B_Archive ==
    /\ bpc = "archive"
    /\ \E r \in (IF bscript = "backup-db"
                 THEN create_archive_from_home_include_tabbyclassmodels(cwd, archive)
                 ELSE tar_models(cwd, archive)) :
          /\ cwd' = r.files
          /\ blog' = Append(blog, "Creating archive ...")
          /\ IF r.out = "ok"
             THEN /\ bsteps' = Append(bsteps, Step("ARCHIVE", "ok"))
                  /\ bpc' = "digest"
                  /\ UNCHANGED bexit
             ELSE /\ bsteps' = Append(bsteps, Step("ARCHIVE", r.out))
                  /\ BFinish(1)
    /\ UNCHANGED <<today, bscript, bcleanup, bdate, bruns>>
    /\ UNCHANGED <<storeVars, findVars, restoreVars, sideVars>>

\* DIGEST: checksum = calculate_sha256(archive); write the checksum file
B_Digest ==
    /\ bpc = "digest"
    /\ blog' = Append(blog, "Calculating checksum ...")
    /\ \/ /\ cwd' = WriteFile(cwd, checksum_file,
                        ChecksumLine(calculate_sha256(cwd, archive), archive))
          /\ bsteps' = Append(bsteps, Step("DIGEST", "ok"))
          /\ bpc' = "client"
          /\ UNCHANGED bexit
       \/ \* reading the archive or writing the checksum file raises
          /\ cwd' \in {cwd, WriteFile(cwd, checksum_file, <<>>)}
          /\ bsteps' = Append(bsteps, Step("DIGEST", "fail"))
          /\ BFinish(1)
    /\ UNCHANGED <<today, bscript, bcleanup, bdate, bruns>>
    /\ UNCHANGED <<storeVars, findVars, restoreVars, sideVars>>

\* s3 = get_s3_client(args.profile, args.endpoint)
B_Client ==
    /\ bpc = "client"
    /\ \/ /\ bsteps' = Append(bsteps, Step("CLIENT", "ok"))
          /\ bpc' = "upload_archive"
          /\ UNCHANGED bexit
       \/ /\ bsteps' = Append(bsteps, Step("CLIENT", "fail"))
          /\ BFinish(1)
    /\ UNCHANGED <<today, bscript, bcleanup, bdate, bruns, cwd, blog>>
    /\ UNCHANGED <<storeVars, findVars, restoreVars, sideVars>>

\* an archive upload whose failure is swallowed
B_UploadArchive_swallow ==
    /\ bpc = "upload_archive"
    /\ \E r \in upload_file(store, cwd, <<Prefix(bscript)>> \o archive, archive, clock) :
          /\ store' = r.store
          /\ bsteps' = Append(bsteps, Step("UPLOAD_ARCHIVE", r.out))
          /\ bpc' = "upload_digest"
          /\ IF r.out = "ok"
             THEN /\ clock' = clock + 1
                  /\ blog' = Append2(blog, "Uploading to S3 ...", "Uploaded archive")
             ELSE /\ clock' = clock
                  /\ blog' = Append(blog, "Uploading to S3 ...")
    /\ UNCHANGED <<today, bscript, bcleanup, bdate, bruns, cwd, bexit>>
    /\ UNCHANGED <<findVars, restoreVars, sideVars>>

\* UPLOAD_ARCHIVE: upload_file(s3, args.bucket, prefix + archive, archive)
B_UploadArchive ==
    /\ bpc = "upload_archive"
    /\ \E r \in upload_file(store, cwd, <<Prefix(bscript)>> \o archive, archive, clock) :
          /\ store' = r.store
          /\ bsteps' = Append(bsteps, Step("UPLOAD_ARCHIVE", r.out))
          /\ IF r.out = "ok"
             THEN /\ clock' = clock + 1
                  /\ blog' = Append2(blog, "Uploading to S3 ...", "Uploaded archive")
                  /\ bpc' = "upload_digest"
                  /\ UNCHANGED bexit
             ELSE /\ clock' = clock
                  /\ blog' = Append(blog, "Uploading to S3 ...")
                  /\ BFinish(1)
    /\ UNCHANGED <<today, bscript, bcleanup, bdate, bruns, cwd>>
    /\ UNCHANGED <<findVars, restoreVars, sideVars>>

\* a digest upload that is tried again after it failed
B_UploadDigest_retry ==
    /\ bpc = "upload_digest"
    /\ Len(bsteps) < 8
    /\ \E r \in upload_file(store, cwd, <<Prefix(bscript)>> \o checksum_file,
                            checksum_file, clock) :
          /\ store' = r.store
          /\ bsteps' = Append(bsteps, Step("UPLOAD_DIGEST", r.out))
          /\ IF r.out = "ok"
             THEN /\ clock' = clock + 1
                  /\ blog' = Append2(blog, "Uploaded checksum", "Backup complete!")
                  /\ IF bcleanup
                     THEN bpc' = "cleanup" /\ UNCHANGED bexit
                     ELSE BFinish(0)
             ELSE /\ clock' = clock
                  /\ UNCHANGED <<blog, bpc, bexit>>
    /\ UNCHANGED <<today, bscript, bcleanup, bdate, bruns, cwd>>
    /\ UNCHANGED <<findVars, restoreVars, sideVars>>

\* a digest upload after which the local files are always removed
B_UploadDigest_always_cleanup ==
    /\ bpc = "upload_digest"
    /\ \E r \in upload_file(store, cwd, <<Prefix(bscript)>> \o checksum_file,
                            checksum_file, clock) :
          /\ store' = r.store
          /\ bsteps' = Append(bsteps, Step("UPLOAD_DIGEST", r.out))
          /\ IF r.out = "ok"
             THEN /\ clock' = clock + 1
                  /\ blog' = Append2(blog, "Uploaded checksum", "Backup complete!")
                  /\ bpc' = "cleanup"
                  /\ UNCHANGED bexit
             ELSE /\ clock' = clock
                  /\ UNCHANGED blog
                  /\ BFinish(1)
    /\ UNCHANGED <<today, bscript, bcleanup, bdate, bruns, cwd>>
    /\ UNCHANGED <<findVars, restoreVars, sideVars>>

\* UPLOAD_DIGEST: upload_file(s3, args.bucket, prefix + checksum_file,
\* checksum_file); log("Backup complete!"); if args.cleanup
B_UploadDigest ==
    /\ bpc = "upload_digest"
    /\ \E r \in upload_file(store, cwd, <<Prefix(bscript)>> \o checksum_file,
                            checksum_file, clock) :
          /\ store' = r.store
          /\ bsteps' = Append(bsteps, Step("UPLOAD_DIGEST", r.out))
          /\ IF r.out = "ok"
             THEN /\ clock' = clock + 1
                  /\ blog' = Append2(blog, "Uploaded checksum", "Backup complete!")
                  /\ IF bcleanup
                     THEN bpc' = "cleanup" /\ UNCHANGED bexit
                     ELSE BFinish(0)
             ELSE /\ clock' = clock
                  /\ UNCHANGED blog
                  /\ BFinish(1)
    /\ UNCHANGED <<today, bscript, bcleanup, bdate, bruns, cwd>>
    /\ UNCHANGED <<findVars, restoreVars, sideVars>>

\* CLEANUP: os.remove(archive); os.remove(checksum_file); log(...)
B_Cleanup ==
    /\ bpc = "cleanup"
    /\ \/ /\ cwd' = RemoveFile(RemoveFile(cwd, archive), checksum_file)
          /\ bsteps' = Append(bsteps, Step("CLEANUP", "ok"))
          /\ blog' = Append(blog, "Local archive removed.")
          /\ BFinish(0)
       \/ \* os.remove(archive) raises
          /\ cwd' = cwd
          /\ bsteps' = Append(bsteps, Step("CLEANUP", "fail"))
          /\ UNCHANGED blog
          /\ BFinish(1)
       \/ \* os.remove(checksum_file) raises
          /\ cwd' = RemoveFile(cwd, archive)
          /\ bsteps' = Append(bsteps, Step("CLEANUP", "fail"))
          /\ UNCHANGED blog
          /\ BFinish(1)
    /\ UNCHANGED <<today, bscript, bcleanup, bdate, bruns>>
    /\ UNCHANGED <<storeVars, findVars, restoreVars, sideVars>>

NextBackup ==
    \/ B_Tick
    \/ B_Start
    \/ B_Archive
    \/ B_Digest
    \/ B_Client
    \/ B_UploadArchive
    \/ B_UploadDigest
    \/ B_Cleanup
SpecBackup == InitBackup /\ [][NextBackup]_vars

\* ------------------------------- a backup run and a restore run, one bucket
\* an earlier complete backup: the archive and the digest line of its bytes
CompletePairs(script, day) ==
    {<<>>} \cup
    {<<[archive |-> [body |-> b, LastModified |-> 1],
        digest |-> [body |-> ChecksumLine(Sha256Hex(b), ArchiveName(script, IsoDate(day))),
                    LastModified |-> 2]]>> : b \in Bytes}
AddPair(st, key, opt) ==
    IF opt = <<>> THEN st
    ELSE WriteFile(WriteFile(st, key, opt[1].archive),
                   key \o <<Sha256Ext>>, opt[1].digest)

\* the bucket holds complete backups of earlier days and of earlier today, or
\* none; one backup run is about to start, and one restore run of its prefix
InitSystem ==
    /\ IdleFind /\ IdleSide
    /\ rscript \in RestoreScripts
    /\ \E old \in CompletePairs(rscript, MaxDay - 1),
          same \in CompletePairs(rscript, MaxDay) :
          store = AddPair(AddPair(Empty, RestoreKey(rscript, MaxDay - 1), old),
                          RestoreKey(rscript, MaxDay), same)
    /\ clock = MaxTime
    /\ today = MaxDay /\ bpc = "idle" /\ bscript = "backup-db" /\ bcleanup = FALSE
    /\ bdate = "" /\ bruns = MaxRuns - 1 /\ cwd = Empty /\ bsteps = <<>>
    /\ blog = <<>> /\ bexit = -1
    /\ rpc = "start" /\ rkey = NoneKey /\ tmp = Empty /\ have_checksum = TRUE
    /\ rcalls = <<>> /\ rlog = <<>> /\ rret = "running" /\ rexit = -1
    /\ rhome = <<>>

\* the backup run writes under the prefix the restore run reads
S_BackupStart == B_Start /\ Prefix(bscript') = Prefix(rscript)

NextSystem ==
    \/ S_BackupStart
    \/ B_Archive
    \/ B_Digest
    \/ B_Client
    \/ B_UploadArchive
    \/ B_UploadDigest
    \/ B_Cleanup
    \/ R_FindLatest
    \/ R_DownloadArchive
    \/ R_DownloadChecksum
    \/ R_Verify
    \/ R_Extract
SpecSystem == InitSystem /\ [][NextSystem]_vars

\* =================================================================== claims
InLog(log, msg) == \E i \in 1..Len(log) : log[i] = msg
Made(op) == {i \in 1..Len(rcalls) : rcalls[i].op = op}
MadeWith(op, target, outs) ==
    {i \in Made(op) : rcalls[i].target = target /\ rcalls[i].out \in outs}
SidecarKey(key) == key \o <<Sha256Ext>>
ExtractionInvoked == Made("extract_archive_to_home") # {}
Extracted == \E i \in Made("extract_archive_to_home") : rcalls[i].out = "ok"
RunFailed == rpc = "exited" /\ (rret = "False" \/ rexit # 0)
SuccessReported == rret = "True" \/ InLog(rlog, "Restore complete")
NoBackupFound ==
    /\ MadeWith("find_latest_backup", <<Prefix(rscript)>>, {"ok"}) # {}
    /\ rkey = NoneKey
ArchiveDownloaded == rkey # NoneKey /\ MadeWith("download", rkey, {"ok"}) # {}
DigestDownloaded ==
    rkey # NoneKey /\ MadeWith("download", SidecarKey(rkey), {"ok"}) # {}
\* the sidecar was downloaded and names another digest than the archive's
DigestMismatch ==
    /\ ArchiveDownloaded /\ DigestDownloaded
    /\ tmp[local_checksum(rkey)] # <<>>
    /\ Sha256Hex(tmp[local_archive(rkey)]) # tmp[local_checksum(rkey)][1]

\* ---- backup runs
IsDigestKey(key) == Len(key) > 1 /\ key[Len(key)] = Sha256Ext
ArchiveKeyOf(key) == SubSeq(key, 1, Len(key) - 1)
Written(key) ==
    key \in DOMAIN store' /\ (key \notin DOMAIN store \/ store'[key] # store[key])
Did(name, out) == \E i \in 1..Len(bsteps) : bsteps[i] = Step(name, out)
SomeStepFailed == \E i \in 1..Len(bsteps) : bsteps[i][2] # "ok"

\* C1: in every backup run the upload of the digest object starts only after
\* the upload of the archive object has returned successfully; a run whose
\* archive upload fails never writes a digest object to the store.
C1_ArchiveBeforeDigest ==
    [][/\ \A k \in DOMAIN store' :
            (Written(k) /\ IsDigestKey(k)) =>
                /\ Did("UPLOAD_ARCHIVE", "ok")
                /\ ~Did("UPLOAD_ARCHIVE", "fail")
                /\ k = <<Prefix(bscript)>> \o checksum_file
                /\ ArchiveKeyOf(k) \in DOMAIN store
                /\ store[ArchiveKeyOf(k)].body = cwd[archive]
       /\ \A i \in 1..Len(bsteps') :
            bsteps'[i][1] = "UPLOAD_DIGEST" =>
                \E j \in 1..(i - 1) : bsteps'[j] = Step("UPLOAD_ARCHIVE", "ok")
      ]_vars

C1_Witness ==
    /\ Did("UPLOAD_ARCHIVE", "ok")
    /\ Did("UPLOAD_DIGEST", "ok")
    /\ <<Prefix(bscript)>> \o archive \in DOMAIN store
    /\ <<Prefix(bscript)>> \o checksum_file \in DOMAIN store

\* C2: a backup run deletes its local archive and local digest file only if
\* cleanup was requested and both uploads succeeded; if any step fails or
\* cleanup was not requested, neither local file is deleted by the run.
C2_DeleteOnlyAfterSuccess ==
    [][(\E f \in DOMAIN cwd : f \notin DOMAIN cwd') =>
            /\ bcleanup
            /\ Did("ARCHIVE", "ok") /\ Did("DIGEST", "ok")
            /\ Did("UPLOAD_ARCHIVE", "ok") /\ Did("UPLOAD_DIGEST", "ok")
            /\ ~SomeStepFailed
            /\ {f \in DOMAIN cwd : f \notin DOMAIN cwd'} \subseteq {archive, checksum_file}
            /\ store[<<Prefix(bscript)>> \o archive].body = cwd[archive]
            /\ store[<<Prefix(bscript)>> \o checksum_file].body = cwd[checksum_file]
      ]_vars

C2_Witness ==
    /\ bpc = "exited"
    /\ bcleanup
    /\ Did("CLEANUP", "ok")
    /\ archive \notin DOMAIN cwd
    /\ checksum_file \notin DOMAIN cwd

\* the steps the run has executed, in the order of the pipeline
PipelineSteps == <<"ARCHIVE", "DIGEST", "UPLOAD_ARCHIVE", "UPLOAD_DIGEST", "CLEANUP">>
NotClient(s) == s[1] # "CLIENT"
Executed == SelectSeq(bsteps, NotClient)
StepsInOrderOnceNoRetry ==
    /\ Len(Executed) <= Len(PipelineSteps)
    /\ \A i \in 1..Len(Executed) : Executed[i][1] = PipelineSteps[i]
    /\ \A i \in 1..Len(bsteps) :
          bsteps[i][2] # "ok" => i = Len(bsteps) /\ bpc = "exited" /\ bexit = 1
    /\ Did("CLEANUP", "ok") \/ Did("CLEANUP", "fail") => bcleanup

C4_MismatchAborts ==
    DigestMismatch =>
        /\ ~ExtractionInvoked
        /\ rpc = "exited" => RunFailed
        /\ local_archive(rkey) \in DOMAIN tmp
        /\ tmp[local_archive(rkey)] = store[rkey].body

\* C5: in a restore run where the archive object exists and its digest
\* sidecar does not, and the store answers the sidecar request with "not
\* found", the run warns, skips verification, extracts the archive and, once
\* extraction returns, reports success.
C5_MissingDigestTolerated ==
    (/\ rpc = "exited"
     /\ ArchiveDownloaded
     /\ SidecarKey(rkey) \notin DOMAIN store
     /\ MadeWith("download", SidecarKey(rkey), {"NotFound"}) # {}
     /\ \A i \in Made("extract_archive_to_home") : rcalls[i].out = "ok")
    => /\ InLog(rlog, "No checksum file found, skipping verification.")
       /\ Made("verify_sha256") = {}
       /\ Extracted
       /\ rhome = <<store[rkey].body>>
       /\ InLog(rlog, "Restore complete")
       /\ rret = SuccessValue(rscript)
       /\ rexit = 0

C5_Witness ==
    /\ rpc = "exited"
    /\ ArchiveDownloaded
    /\ SidecarKey(rkey) \notin DOMAIN store
    /\ MadeWith("download", SidecarKey(rkey), {"NotFound"}) # {}
    /\ InLog(rlog, "No checksum file found, skipping verification.")
    /\ Extracted
    /\ rret = "True"

\* C6: absence of the sidecar is the only digest-download failure a restore
\* run tolerates: when the sidecar exists and its download fails for another
\* reason, the run aborts without extracting the archive.
C6_OnlyAbsenceTolerated ==
    (/\ rkey # NoneKey
     /\ SidecarKey(rkey) \in DOMAIN store
     /\ MadeWith("download", SidecarKey(rkey), {"ClientError", "OtherError"}) # {})
    => ~ExtractionInvoked

\* C7: when find_latest_backup returns no key, the restore run reports "no
\* backup found" and returns failure without any download, verification or
\* extraction.
C7_NoBackupIsFailure ==
    (rpc = "exited" /\ NoBackupFound)
    => /\ InLog(rlog, "No backup found.")
       /\ RunFailed
       /\ Made("download") = {}
       /\ Made("verify_sha256") = {}
       /\ ~ExtractionInvoked

\* C8: every restore entry point exits with status 0 only when the archive
\* was extracted, and with a nonzero status when no backup is found, when the
\* checksum does not match and when a transfer fails.
C8_ExitStatus ==
    rpc = "exited" =>
        /\ rexit = 0 => Extracted
        /\ NoBackupFound => rexit # 0
        /\ DigestMismatch => rexit # 0
        /\ (\E i \in Made("download") : rcalls[i].out \in {"ClientError", "OtherError"})
              => rexit # 0

\* C9: a restore run reports success only after, in this order in the same
\* run: find_latest_backup returned a key, the archive download completed,
\* the digest was found absent or verified equal, extraction returned.
C9_SuccessOnlyAfterAllSteps ==
    SuccessReported =>
        /\ rkey # NoneKey
        /\ Len(rcalls) \in {4, 5}
        /\ rcalls[1] = Call("find_latest_backup", <<Prefix(rscript)>>, "ok")
        /\ rcalls[2] = Call("download", rkey, "ok")
        /\ rcalls[3].op = "download" /\ rcalls[3].target = SidecarKey(rkey)
        /\ \/ /\ Len(rcalls) = 4
              /\ SidecarKey(rkey) \notin DOMAIN store
              /\ rcalls[3].out # "ok"
           \/ /\ Len(rcalls) = 5
              /\ rcalls[3].out = "ok"
              /\ rcalls[4] = Call("verify_sha256", local_archive(rkey), "True")
              /\ Sha256Hex(store[rkey].body) = store[SidecarKey(rkey)].body[1]
        /\ rcalls[Len(rcalls)] = Call("extract_archive_to_home", local_archive(rkey), "ok")

\* C10: for any set of objects split across any number of listing pages,
\* find_latest_backup returns a key that ends in ".tar.zst" and whose
\* LastModified is >= that of every other listed key ending in ".tar.zst";
\* it returns None exactly when no listed key ends in ".tar.zst".
ListedObjects == UNION {{pages[p][i] : i \in 1..Len(pages[p])} : p \in 1..Len(pages)}
ListedArchives == {o \in ListedObjects : EndsWithTarZst(o.Key)}
C10_LatestSelected ==
    fpc = "returned" =>
        /\ found = NoneKey <=> ListedArchives = {}
        /\ found # NoneKey =>
              \E o \in ListedArchives :
                  /\ o.Key = found
                  /\ \A m \in ListedArchives : o.LastModified >= m.LastModified

\* the newest archive sits on a later page than an older one, and a
\* by-stander that is no archive carries the greatest timestamp of all
C10_Witness ==
    /\ fpc = "returned"
    /\ found # NoneKey
    /\ Len(pages) >= 2
    /\ \E i \in 1..Len(pages[1]) :
          /\ EndsWithTarZst(pages[1][i].Key)
          /\ \E j \in 1..Len(pages[2]) :
                /\ pages[2][j].Key = found
                /\ pages[2][j].LastModified > pages[1][i].LastModified
    /\ \E o \in ListedObjects \ ListedArchives :
          \A m \in ListedArchives : o.LastModified > m.LastModified

\* ---- find_latest_backup, hyperproperties
\* every listing of the same objects: any order, any cut into pages
Relistings ==
    UNION {UNION {Splits(flat, n) : n \in 1..MaxPages} : flat \in Perms(ListedObjects)}

\* C11: find_latest_backup is deterministic in the set of stored objects:
\* two listings of the same (key, LastModified) pairs, in a different order or
\* page split, give the same key, also when several archives share the
\* greatest timestamp.
C11_OrderIndependent ==
    fpc = "returned" => \A other \in Relistings : find_latest_backup(other) = found

\* ---- backup runs, store consistency
\* C12: after any sequence of non-overlapping backup runs, each of which may
\* fail at any step, whenever the store holds an archive object and its
\* ".sha256" object, the digest recorded there is the digest of the bytes now
\* stored at the archive key.
C12_PairConsistent ==
    \A k \in DOMAIN store :
        (bpc \in {"idle", "exited"} /\ EndsWithTarZst(k)
         /\ SidecarKey(k) \in DOMAIN store) =>
            /\ store[SidecarKey(k)].body # <<>>
            /\ store[SidecarKey(k)].body[1] = Sha256Hex(store[k].body)


\* ---- backup runs, names and digest line
\* C13: a backup run with label L started on date D uploads the archive to
\* '<prefix>L_D.tar.zst' and the digest file to that key plus '.sha256'; the
\* digest file is exactly one line: the lower-case hex digest of the archive,
\* two spaces, the base name 'L_D.tar.zst', newline; D is read once when the
\* run starts, so keys and line name the same date if midnight passes.
C13_KeysAndDigestLine ==
    [][/\ bruns' # bruns => bdate' = IsoDate(today)
       /\ bruns' = bruns => bdate' = bdate
       /\ \A k \in DOMAIN store' :
            Written(k) =>
                LET L == IF bscript = "backup-db" THEN "db" ELSE "models"
                    prefix == IF bscript = "backup-db" THEN "db-backups/"
                              ELSE "model-backups/"
                    base == <<L, "_", bdate, ".tar.zst">>
                    body == store'[k].body
                IN \/ /\ k = <<prefix>> \o base
                      /\ body = cwd[base]
                   \/ /\ k = <<prefix>> \o base \o <<".sha256">>
                      /\ body = <<Sha256Hex(cwd[base]), "  ">> \o base \o <<"\n">>
                      /\ body[1] \in LowerHex
      ]_vars

\* both objects of a run are in the store under the start date while the
\* run, not yet finished, has lived through midnight
C13_Witness ==
    /\ bpc = "cleanup"
    /\ IsoDate(today) # bdate
    /\ Did("UPLOAD_ARCHIVE", "ok") /\ Did("UPLOAD_DIGEST", "ok")
    /\ <<Prefix(bscript), Label(bscript), "_", bdate, ".tar.zst">> \in DOMAIN store
    /\ <<Prefix(bscript), Label(bscript), "_", bdate, ".tar.zst", ".sha256">>
          \in DOMAIN store


\* ---- restore runs, the sidecar key
\* C14: for every key K that find_latest_backup can return, also one that
\* holds ".tar.zst" more than once, the sidecar key the restore run requests
\* is exactly K + ".sha256", the digest key a backup run writes for K.
C14_SidecarKeyIsAppended ==
    \A i \in Made("download") :
        rcalls[i].target \in {rkey, rkey \o <<".sha256">>}


\* ---- checksum helpers
Verifications == {i \in 1..Len(dcalls) : dcalls[i].op = "verify_sha256"}
Calculations == {i \in 1..Len(dcalls) : dcalls[i].op = "calculate_sha256"}

\* C15: verify_sha256(file, expected) returns true if and only if the file's
\* digest equals expected compared case-insensitively as hex: an upper-case or
\* mixed-case spelling of the file's digest verifies as true.
C15_CaseInsensitive ==
    \A i \in Verifications :
        dcalls[i].result # "raised" =>
            (dcalls[i].result = "True"
                <=> Lower(dcalls[i].checksum) = Sha256Hex(dfiles[DigestPath]))

\* C16: verify_sha256(f, calculate_sha256(f)) is true and verify_sha256(f, h)
\* is false for every other hex string h; calculate_sha256 called twice on an
\* unmodified file returns the same value, and no call modifies the file.
C16_VerifyGate ==
    [][/\ dfiles' = dfiles
       /\ \A i, j \in 1..Len(dcalls') :
            (dcalls'[i].op = "calculate_sha256" /\ dcalls'[i].result # "raised") =>
                /\ dcalls'[i].result \in LowerHex
                /\ dcalls'[j].op = "calculate_sha256" =>
                      dcalls'[j].result = dcalls'[i].result
                /\ dcalls'[j].op = "verify_sha256" =>
                      dcalls'[j].result =
                          (IF dcalls'[j].checksum = dcalls'[i].result
                           THEN "True" ELSE "False")
      ]_vars

\* the digest one call returned is handed to verify_sha256, which accepts it
C16_Witness ==
    /\ Len(dcalls) = 2
    /\ dcalls[1].op = "calculate_sha256"
    /\ dcalls[2] = DCall("verify_sha256", dcalls[1].result, "True")


\* ---- two restore runs on one host
\* the local paths the first run has written or read
RunPaths ==
    (IF MadeWith("download", rkey, {"ok"}) # {}
     THEN {local_archive(rkey)} ELSE {})
    \cup (IF MadeWith("download", checksum_key(rkey), {"ok"}) # {}
          THEN {local_checksum(rkey)} ELSE {})
    \cup {rcalls[i].target : i \in Made("verify_sha256") \cup Made("extract_archive_to_home")}
PeerExtracted ==
    \E i \in 1..Len(pcalls) : pcalls[i].op = "extract_archive_to_home"

\* the first run reads and writes no path the peer run writes
C17_DisjointPaths == RunPaths \cap pwrites = {}
\* what the first run unpacks are the bytes of the archive it downloaded
C17_OwnBytes == (Extracted /\ ~PeerExtracted) => rhome = <<store[rkey].body>>

\* C17: local temporary files are process-private: two restore runs of the
\* same prefix executing concurrently on one host never read or write the
\* same local file path, so no run verifies or extracts bytes another wrote.
C17_PrivatePaths == C17_DisjointPaths /\ C17_OwnBytes


\* ---- a restore run while a backup run is in progress
\* C18: a restore run interleaved at any point with one in-progress backup
\* run to the same prefix, the store possibly holding earlier complete
\* backups, also one under the same key from earlier that day, never ends in
\* a checksum-mismatch abort.
C18_NoMismatchAbort ==
    /\ ~InLog(rlog, "Checksum mismatch! Aborting.")
    /\ \A i \in Made("verify_sha256") : rcalls[i].out = "True"


\* ---- archive helpers
\* the call was given a source the tools can pack and no I/O error happened
Packable(c) ==
    /\ c.io_ok
    /\ c.op = "create_archive" => os_path_basename(abspath(expanduser(c.src_dir))) # ""

\* C19: create_archive and extract_archive take the external-tool path
\* exactly when the capability probe finds the external tools, and the
\* in-process path otherwise; with the external tools absent and the
\* in-process codec available both complete, and they fail only when neither
\* is available.
C19_DualPath ==
    \A i \in 1..Len(acalls) :
        LET c == acalls[i] IN
        /\ c.path = (IF "tar" \in host /\ "zstd" \in host THEN "external"
                     ELSE "in-process")
        /\ (c.path = "in-process" /\ "zstandard" \in host /\ c.io_ok) => c.out = "ok"
        /\ (c.out # "ok" /\ Packable(c)) =>
              (c.path = "in-process" /\ "zstandard" \notin host)

\* C20: for every source directory path (relative, "~"-prefixed, with a
\* trailing slash), the external-tool path and the in-process path of
\* create_archive give an archive with the same single top-level entry, the
\* directory named by the base name of the source directory, so that
\* unpacking either under a target recreates target/<baseName>/...
C20_SameSingleRoot ==
    \A i \in 1..Len(acalls) :
        LET c == acalls[i] IN
        (c.op = "create_archive" /\ c.out = "ok") =>
            /\ c.entries =
                  {Entry(os_path_basename(abspath(expanduser(c.src_dir))), "dir")}
            /\ \A h \in SUBSET Installable :
                  LET o == create_archive(h, c.src_dir, c.kind, c.io_ok) IN
                  o.out = "ok" => o.entries = c.entries
            /\ (i < Len(acalls) /\ acalls[i + 1].out = "ok") =>
                  acalls[i + 1].entries = c.entries


\* ---- archive helpers, round trip
\* what reading every path of a tree gives: a link reads as what it points to
ReadTree(members) == {Deref(members, m) : m \in members}

\* C21: round trip: for any directory tree T, creating an archive of T and
\* extracting it into an empty target yields target/<baseName(T)> with
\* exactly the relative paths and file contents of T, whichever of the two
\* codec paths was used for create and for extract.
C21_RoundTrip ==
    (acalls # <<>> /\ acalls[1].op = "create_archive" /\ acalls[1].out = "ok") =>
        LET c == acalls[1]
            base == os_path_basename(abspath(expanduser(c.src_dir)))
        IN /\ (Len(acalls) = 2 /\ acalls[2].out = "ok") =>
                 /\ acalls[2].entries = {Entry(base, "dir")}
                 /\ ReadTree(amembers[2]) = ReadTree(atree)
           /\ \A h1, h2 \in SUBSET Installable :
                 LET c1 == create_archive(h1, c.src_dir, c.kind, TRUE)
                     e2 == extract_archive(h2, c1.entries, TRUE)
                 IN (c1.out = "ok" /\ e2.out = "ok") =>
                       /\ e2.entries = {Entry(base, "dir")}
                       /\ ReadTree(unpack_members(h2, pack_members(h1, c.kind, atree)))
                             = ReadTree(atree)


\* ---- the db backup archive
FromHome == {i \in 1..Len(acalls) :
                acalls[i].op = "create_archive_from_home" /\ acalls[i].out = "ok"}

\* C22: the db backup archive, created with the `models` exclusion, holds no
\* path under <root>/models/ and every other path of the source tree;
\* exclusion is by exact path prefix, so a sibling whose name only contains
\* or starts with `models` (models_old, ee/models.txt) is still archived.
C22_ExclusionExact ==
    \A i \in FromHome :
        /\ acalls[i].entries = {Entry("tabbyclassmodels", "dir")}
        /\ \A m \in amembers[i] : m.path[1] # "models"
        /\ \A m \in atree : m.path[1] # "models" => Deref(atree, m) \in ReadTree(amembers[i])
        /\ ReadTree(amembers[i]) \subseteq ReadTree(atree)

\* a tree with models/, models_old/ and ee/models.txt was archived
C22_Witness ==
    \E i \in FromHome :
        /\ \E m \in atree : m.path = <<"models", "m.bin">>
        /\ \E m \in amembers[i] : m.path = <<"models_old", "o.bin">>
        /\ \E m \in amembers[i] : m.path = <<"ee", "models.txt">>
        /\ ~\E m \in amembers[i] : m.path[1] = "models"


\* ---------------------------------------------------------------------------
\* run_all.py: the three step runners (tabby_setup, ollama_setup, setup)
\* ---------------------------------------------------------------------------

\* Most modules a step directory holds.
MaxModules == 3

RunAllVariants == {"tabby_setup", "ollama_setup", "setup"}

\* Module names are sequences of characters; Chars lists them in code-point
\* order ('0' < '1' < '2' < '5' < '_' < 'a' < 'b' < 'r' < 'x').
Chars == <<"0", "1", "2", "5", "_", "a", "b", "r", "x">>
Digits == {"0", "1", "2", "5"}
DigitValue(c) == CASE c = "0" -> 0 [] c = "1" -> 1 [] c = "2" -> 2 [] c = "5" -> 5

CharRank(c) == CHOOSE i \in 1..Len(Chars) : Chars[i] = c

\* str.__lt__
RECURSIVE StrLess(_, _)
StrLess(a, b) ==
    IF b = <<>> THEN FALSE
    ELSE IF a = <<>> THEN TRUE
    ELSE IF Head(a) # Head(b) THEN CharRank(Head(a)) < CharRank(Head(b))
    ELSE StrLess(Tail(a), Tail(b))

\* The module names a step directory may hold: 10_a, 10_b, 100_a, 20_a, 5_a,
\* r_a (no numeric prefix, as run_all itself) and 10x_a.
ModuleNames ==
    { <<"1", "0", "_", "a">>, <<"1", "0", "_", "b">>, <<"1", "0", "0", "_", "a">>,
      <<"2", "0", "_", "a">>, <<"5", "_", "a">>, <<"r", "_", "a">>,
      <<"1", "0", "x", "_", "a">> }

\* pkgutil.iter_modules yields the directory's modules in sorted name order.
RECURSIVE iter_modules(_)
iter_modules(dir) ==
    IF dir = {} THEN <<>>
    ELSE LET first == CHOOSE n \in dir : \A m \in dir \ {n} : StrLess(n, m)
         IN  <<first>> \o iter_modules(dir \ {first})

Range(s) == {s[i] : i \in DOMAIN s}

\* name[:2].isdigit()
FirstTwoAreDigits(name) ==
    /\ name # <<>>
    /\ \A i \in 1..Len(name) : i <= 2 => name[i] \in Digits

\* n.split("_")[0]
RECURSIVE BeforeUnderscore(_)
BeforeUnderscore(name) ==
    IF name = <<>> \/ Head(name) = "_" THEN <<>>
    ELSE <<Head(name)>> \o BeforeUnderscore(Tail(name))

\* int(s) of a decimal string; IsInt(s) is false where int raises ValueError.
IsInt(s) == s # <<>> /\ \A i \in 1..Len(s) : s[i] \in Digits

RECURSIVE IntOf(_)
IntOf(s) ==
    IF s = <<>> THEN 0
    ELSE 10 * IntOf(SubSeq(s, 1, Len(s) - 1)) + DigitValue(s[Len(s)])

SortKey(name) == IntOf(BeforeUnderscore(name))

\* sorted(modules, key=...) is stable: equal keys keep their listing order.
RECURSIVE InsertByKey(_, _)
InsertByKey(sorted, name) ==
    IF sorted = <<>> THEN <<name>>
    ELSE IF SortKey(Head(sorted)) <= SortKey(name)
         THEN <<Head(sorted)>> \o InsertByKey(Tail(sorted), name)
         ELSE <<name>> \o sorted

RECURSIVE SortedByKey(_)
SortedByKey(modules) ==
    IF modules = <<>> THEN <<>>
    ELSE InsertByKey(SortedByKey(SubSeq(modules, 1, Len(modules) - 1)),
                     modules[Len(modules)])

Numbered(dir) ==
    SelectSeq(iter_modules(dir),
              LAMBDA name : FirstTwoAreDigits(name) /\ "_" \in Range(name))

\* discover_scripts: "ValueError" when a prefix is not a number.
discover_scripts_listing_order(dir) ==
    IF \E i \in 1..Len(Numbered(dir)) : ~IsInt(BeforeUnderscore(Numbered(dir)[i]))
    THEN "ValueError"
    ELSE Numbered(dir)

discover_scripts(dir) ==
    IF \E i \in 1..Len(Numbered(dir)) : ~IsInt(BeforeUnderscore(Numbered(dir)[i]))
    THEN "ValueError"
    ELSE SortedByKey(Numbered(dir))

\* How importing a step and calling its main() can end.
StepEnds ==
    { "returns", "no_main", "import_error", "raises", "KeyboardInterrupt",
      "exit:0", "exit:1", "exit:2", "exit:msg", "exit:None" }

\* The e.code of a SystemExit, and `e.code != 0`.
IsSystemExit(end) == end \in {"exit:0", "exit:1", "exit:2", "exit:msg", "exit:None"}
CodeIsNotZero(end) == end \in {"exit:1", "exit:2", "exit:msg", "exit:None"}

\* The process exit status of sys.exit(code): an integer is the status, None
\* is status 0, any other object is printed and the status is 1.
sys_exit(end) ==
    CASE end = "exit:0"    -> 0
      [] end = "exit:1"    -> 1
      [] end = "exit:2"    -> 2
      [] end = "exit:None" -> 0
      [] end = "exit:msg"  -> 1

QLog(kind, name) == Append(qlog, <<kind, name>>)

InitRunAll ==
    /\ IdleStore /\ IdleFind /\ IdleBackup /\ IdleRestore
    /\ IdlePeer /\ IdleDigest /\ IdleArchive /\ IdleWrap /\ IdleTwin /\ IdleDl
    /\ qvariant \in RunAllVariants
    /\ qdir \in {d \in SUBSET ModuleNames : Cardinality(d) <= MaxModules}
    /\ qscripts = <<>> /\ qi = 1 /\ qpc = "start"
    /\ qends = <<>> /\ qlog = <<>> /\ qexit = -1

RunOthersIdle ==
    UNCHANGED <<storeVars, findVars, backupVars, restoreVars, peerVars, digestVars,
                archiveVars, wrapVars, twinVars, dlVars>>

\* setup/run_all.py stops at `from pathlib import path`: pathlib has no such
\* name, the ImportError is not caught, and no step is run.
Q_ImportFails ==
    /\ qpc = "start" /\ qvariant = "setup"
    /\ qpc' = "exited" /\ qexit' = 1
    /\ qlog' = QLog("Traceback", <<>>)
    /\ UNCHANGED <<qvariant, qdir, qscripts, qi, qends>>
    /\ RunOthersIdle

\* main() up to the loop: discover the scripts, stop when there are none.
Q_Discover ==
    /\ qpc = "start" /\ qvariant # "setup"
    /\ LET scripts == discover_scripts(qdir) IN
        IF scripts = "ValueError"
        THEN /\ qpc' = "exited" /\ qexit' = 1
             /\ qlog' = QLog("Traceback", <<>>)
             /\ UNCHANGED qscripts
        ELSE IF scripts = <<>>
        THEN /\ qpc' = "exited" /\ qexit' = 1
             /\ qlog' = QLog("No numbered setup scripts found", <<>>)
             /\ UNCHANGED qscripts
        ELSE /\ qpc' = "loop" /\ qscripts' = scripts
             /\ qlog' = QLog("Found", <<>>)
             /\ UNCHANGED qexit
    /\ UNCHANGED <<qvariant, qdir, qi, qends>>
    /\ RunOthersIdle

\* One turn of the loop: import the step, call its main(), handle how it ends.
Q_Step ==
    /\ qpc = "loop" /\ qi <= Len(qscripts)
    /\ \E end \in StepEnds :
        LET name == qscripts[qi]
            ran  == Append(qlog, <<"Running", name>>) IN
        /\ qends' = Append(qends, [name |-> name, end |-> end])
        /\ IF IsSystemExit(end) /\ CodeIsNotZero(end)
           THEN /\ qlog' = Append(ran, <<"exited with code", name>>)
                /\ qpc' = "exited" /\ qexit' = sys_exit(end)
                /\ UNCHANGED qi
           ELSE IF end \in {"import_error", "raises"}
           THEN /\ qlog' = Append(ran, <<"failed", name>>)
                /\ qpc' = "exited" /\ qexit' = 1
                /\ UNCHANGED qi
           ELSE IF end = "KeyboardInterrupt"
           THEN /\ qlog' = Append(ran, <<"Aborted by user", <<>>>>)
                /\ qpc' = "exited" /\ qexit' = 130
                /\ UNCHANGED qi
           ELSE /\ qlog' = IF end = "no_main"
                           THEN Append(ran, <<"skipped", name>>) ELSE ran
                /\ qi' = qi + 1
                /\ UNCHANGED <<qpc, qexit>>
    /\ UNCHANGED <<qvariant, qdir, qscripts>>
    /\ RunOthersIdle

\* After the last step: the closing message, and main() returns.
Q_Completed ==
    /\ qpc = "loop" /\ qi > Len(qscripts)
    /\ qlog' = QLog("All setup steps completed successfully", <<>>)
    /\ qpc' = "exited" /\ qexit' = 0
    /\ UNCHANGED <<qvariant, qdir, qscripts, qi, qends>>
    /\ RunOthersIdle

NextRunAll == Q_ImportFails \/ Q_Discover \/ Q_Step \/ Q_Completed

SpecRunAll == InitRunAll /\ [][NextRunAll]_vars

\* ---------------------------------------------------------------------------
\* Claims on run_all
\* ---------------------------------------------------------------------------

StartedNames == {qends[i].name : i \in DOMAIN qends}
NumberedNames == {n \in qdir : FirstTwoAreDigits(n) /\ "_" \in Range(n)}

\* The step raised an exception or exited with a nonzero status.
StepFailed(end) ==
    end \in {"import_error", "raises", "KeyboardInterrupt", "exit:1", "exit:2", "exit:msg"}

\* The step came to its end: main() returned, there was no main() to call,
\* or it exited with status 0.
StepCompleted(end) == end \in {"returns", "no_main", "exit:0"}

CompletedMessage == InLog(qlog, <<"All setup steps completed successfully", <<>>>>)

C27_NonzeroOnEarlyStop ==
    qpc = "exited" =>
        /\ qexit = 0 =>
              /\ StartedNames = NumberedNames
              /\ \A i \in DOMAIN qends : StepCompleted(qends[i].end)
        /\ (qends # <<>> /\ CodeIsNotZero(qends[Len(qends)].end)) => qexit # 0


\* ---------------------------------------------------------------------------
\* The two download helpers, step by step
\* ---------------------------------------------------------------------------

\* Most calls of a download helper in one behaviour.
MaxDownloads == 2

DownloadFns == {"download_file", "download_file_with_progress"}

DlKey == RestoreKey("10_restore_db", 1)
DlPath == local_archive(DlKey)

\* What s3.head_object can give for a key: a response with ContentLength, a
\* response without it, or an error (404 for a key that does not exist).
head_object(st, key) ==
    IF key \in DOMAIN st
    THEN {"size", "no_size", "ClientError", "OtherError"}
    ELSE {"NotFound", "ClientError", "OtherError"}

\* What the transfer itself can do: deliver the body, or raise with the local
\* file empty or part written.  download_fileobj raises ClientError at any
\* point; get_object raises it before anything was read, and a failing
\* body.read raises something else.
Transfers(fn, st, key) ==
    IF key \in DOMAIN st
    THEN {[out |-> "ok", got |-> st[key].body]}
         \cup ({[out |-> e, got |-> p] : e \in {"ClientError", "OtherError"},
                                          p \in PartialBodies}
               \ (IF fn = "download_file" THEN {}
                   ELSE {[out |-> "ClientError", got |-> <<"partial">>]}))
    ELSE {[out |-> e, got |-> <<>>] : e \in {"NotFound", "ClientError", "OtherError"}}

DlResult(out, files, progress) == [out |-> out, files |-> files, progress |-> progress]

\* include.s3_utils.download_file: head_object and meta["ContentLength"] come
\* first and nothing catches what they raise; then open(local_path, "wb") and
\* download_fileobj under a tqdm bar with the total.
download_file_steps(files, local_path, head, xfer) ==
    IF head = "no_size" THEN DlResult("OtherError", files, "none")
    ELSE IF head # "size" THEN DlResult(head, files, "none")
    ELSE DlResult(xfer.out, WriteFile(files, local_path, xfer.got), "percent")

\* 20_restore_models.download_file_with_progress: total = 0 when head_object
\* raises or gives no ContentLength; open(dest_path, "wb"), get_object, and the
\* chunks are written with a percentage when total is not 0, else with the
\* bytes so far.
download_file_with_progress_steps(files, dest_path, head, xfer) ==
    DlResult(xfer.out, WriteFile(files, dest_path, xfer.got),
             IF xfer.got = <<>> THEN "none"
             ELSE IF head = "size" THEN "percent" ELSE "bytes")

GCall(fn, existed, head, xfer, r) ==
    [fn |-> fn, existed |-> existed, head |-> head, xfer |-> xfer.out,
     out |-> r.out, progress |-> r.progress, left |-> r.files]

InitDownload ==
    /\ IdleFind /\ IdleBackup /\ IdleRestore
    /\ IdlePeer /\ IdleDigest /\ IdleArchive /\ IdleRun /\ IdleWrap /\ IdleTwin
    /\ clock = 1
    /\ store \in {Empty} \cup
                 {PutObject(Empty, DlKey, b, 1) : b \in Bytes}
    /\ gfiles \in {Empty} \cup {WriteFile(Empty, DlPath, c) : c \in FileContents}
    /\ gcalls = <<>>

G_Download(fn) ==
    /\ Len(gcalls) < MaxDownloads
    /\ \E head \in head_object(store, DlKey), xfer \in Transfers(fn, store, DlKey) :
        LET r == IF fn = "download_file"
                 THEN download_file_steps(gfiles, DlPath, head, xfer)
                 ELSE download_file_with_progress_steps(gfiles, DlPath, head, xfer)
        IN  /\ gfiles' = r.files
            /\ gcalls' = Append(gcalls, GCall(fn, DlKey \in DOMAIN store, head, xfer, r))
    /\ UNCHANGED <<storeVars, findVars, backupVars, restoreVars, peerVars, digestVars,
                   archiveVars, runVars, wrapVars, twinVars>>

NextDownload == \E fn \in DownloadFns : G_Download(fn)

SpecDownload == InitDownload /\ [][NextDownload]_vars

\* The results of the step-by-step helpers, over every head and transfer
\* outcome, are the results download_file and download_file_with_progress have.
DownloadStepsAgree ==
    \A files \in {gfiles} :
        /\ download_file(store, files, DlKey, DlPath) =
             {[out |-> r.out, files |-> r.files] :
                 r \in {download_file_steps(files, DlPath, h, x) :
                           h \in head_object(store, DlKey), x \in Transfers("download_file", store, DlKey)}}
        /\ download_file_with_progress(store, files, DlKey, DlPath) =
             {[out |-> r.out, files |-> r.files] :
                 r \in {download_file_with_progress_steps(files, DlPath, h, x) :
                           h \in head_object(store, DlKey), x \in Transfers("download_file_with_progress", store, DlKey)}}

\* C24: when the head call for an existing object fails or gives no size and
\* the transfer itself delivers the body, the download completes, the local
\* file holds the object's content, and progress was reported as bytes so far
\* without a percentage.
C24_HeadFailureHarmless ==
    \A i \in DOMAIN gcalls :
        LET c == gcalls[i] IN
        (c.existed /\ c.head \in {"no_size", "ClientError", "OtherError"} /\ c.xfer = "ok")
            => /\ c.out = "ok"
               /\ DlPath \in DOMAIN c.left
               /\ c.left[DlPath] = store[DlKey].body
               /\ c.progress = "bytes"


\* ---------------------------------------------------------------------------
\* Claims on the tool check of the models backup
\* ---------------------------------------------------------------------------

ToolsMissing == Did("ARCHIVE", "ToolMissing")

\* C25: the models backup checks for tar and zstd before it creates anything:
\* the step in which the tools are found missing writes no local file and
\* uploads nothing, and it is the only step of the run, which ends there with
\* a failure status.
C25_ToolsCheckedFirst ==
    [][ /\ (bpc = "archive" /\ bscript = "backup-models" /\ ToolsMissing')
            => /\ cwd' = cwd
               /\ store' = store
               /\ bsteps' = <<Step("ARCHIVE", "ToolMissing")>>
               /\ bpc' = "exited" /\ bexit' = 1
        /\ (ToolsMissing /\ bsteps' = bsteps)
            => (cwd' = cwd /\ store' = store) ]_vars

\* A models backup that stopped at the tool check.
C25_Witness ==
    /\ bscript = "backup-models" /\ bpc = "exited" /\ bexit = 1
    /\ ToolsMissing
    /\ ~InLog(blog, "Backup complete!")


\* ---------------------------------------------------------------------------
\* Two backup runs of one label and date that overlap, on two hosts
\* ---------------------------------------------------------------------------

\* A second run of the same script, started on another host (its own working
\* directory, without --cleanup) while the first is under way.  Its steps are
\* recorded with the store's clock at the time.
XStep(name, out) == <<name, out, clock>>
XFinish == xpc' = "exited"

TwinOthersIdle ==
    UNCHANGED <<findVars, backupVars, restoreVars, peerVars, digestVars, archiveVars,
                runVars, wrapVars, dlVars>>

InitTwin ==
    /\ IdleStore /\ IdleFind /\ IdleRestore
    /\ IdlePeer /\ IdleDigest /\ IdleArchive /\ IdleRun /\ IdleWrap /\ IdleDl
    /\ today = 1 /\ bpc = "idle" /\ bscript = "backup-db" /\ bcleanup = FALSE
    /\ bdate = "" /\ bruns = MaxRuns - 1 /\ cwd = Empty /\ bsteps = <<>>
    /\ blog = <<>> /\ bexit = -1
    /\ IdleTwin

\* main: parse_args, date = datetime.date.today().isoformat()
X_Start ==
    /\ xpc = "idle"
    /\ bpc \notin {"idle", "exited"}
    /\ xpc' = "archive"
    /\ UNCHANGED <<xcwd, xsteps, storeVars>>
    /\ TwinOthersIdle

\* ARCHIVE
X_Archive ==
    /\ xpc = "archive"
    /\ \E r \in (IF bscript = "backup-db"
                 THEN create_archive_from_home_include_tabbyclassmodels(xcwd, archive)
                 ELSE tar_models(xcwd, archive)) :
          /\ xcwd' = r.files
          /\ xsteps' = Append(xsteps, XStep("ARCHIVE", r.out))
          /\ IF r.out = "ok" THEN xpc' = "digest" ELSE XFinish
    /\ UNCHANGED storeVars
    /\ TwinOthersIdle

\* DIGEST, and s3 = get_s3_client(...)
X_Digest ==
    /\ xpc = "digest"
    /\ \/ /\ xcwd' = WriteFile(xcwd, checksum_file,
                         ChecksumLine(calculate_sha256(xcwd, archive), archive))
          /\ xsteps' = Append(xsteps, XStep("DIGEST", "ok"))
          /\ xpc' = "upload_archive"
       \/ /\ xcwd' \in {xcwd, WriteFile(xcwd, checksum_file, <<>>)}
          /\ xsteps' = Append(xsteps, XStep("DIGEST", "fail"))
          /\ XFinish
       \/ \* get_s3_client raises
          /\ xcwd' = WriteFile(xcwd, checksum_file,
                         ChecksumLine(calculate_sha256(xcwd, archive), archive))
          /\ xsteps' = Append(Append(xsteps, XStep("DIGEST", "ok")), XStep("CLIENT", "fail"))
          /\ XFinish
    /\ UNCHANGED storeVars
    /\ TwinOthersIdle

\* UPLOAD_ARCHIVE
X_UploadArchive ==
    /\ xpc = "upload_archive"
    /\ \E r \in upload_file(store, xcwd, <<Prefix(bscript)>> \o archive, archive, clock) :
          /\ store' = r.store
          /\ xsteps' = Append(xsteps, XStep("UPLOAD_ARCHIVE", r.out))
          /\ IF r.out = "ok"
             THEN clock' = clock + 1 /\ xpc' = "upload_digest"
             ELSE clock' = clock /\ XFinish
    /\ UNCHANGED xcwd
    /\ TwinOthersIdle

\* UPLOAD_DIGEST, log("Backup complete!"), and main returns
X_UploadDigest ==
    /\ xpc = "upload_digest"
    /\ \E r \in upload_file(store, xcwd, <<Prefix(bscript)>> \o checksum_file,
                            checksum_file, clock) :
          /\ store' = r.store
          /\ xsteps' = Append(xsteps, XStep("UPLOAD_DIGEST", r.out))
          /\ clock' = IF r.out = "ok" THEN clock + 1 ELSE clock
          /\ XFinish
    /\ UNCHANGED xcwd
    /\ TwinOthersIdle

NextTwin ==
    \/ B_Start
    \/ B_Archive
    \/ B_Digest
    \/ B_Client
    \/ B_UploadArchive
    \/ B_UploadDigest
    \/ B_Cleanup
    \/ X_Start
    \/ X_Archive
    \/ X_Digest
    \/ X_UploadArchive
    \/ X_UploadDigest

SpecTwin == InitTwin /\ [][NextTwin]_vars

\* ---------------------------------------------------------------------------
\* Claims on overlapping backup runs
\* ---------------------------------------------------------------------------

TwinKey == <<Prefix(bscript)>> \o archive
TwinSidecar == <<Prefix(bscript)>> \o checksum_file

XDid(name, out) == \E i \in DOMAIN xsteps : xsteps[i][1] = name /\ xsteps[i][2] = out
XTime(name) == (CHOOSE st \in Range(xsteps) : st[1] = name /\ st[2] = "ok")[3]

\* Both runs have ended, each after all of its steps succeeded.
BothCompleted ==
    /\ bpc = "exited" /\ bexit = 0 /\ Did("UPLOAD_DIGEST", "ok")
    /\ xpc = "exited" /\ XDid("UPLOAD_DIGEST", "ok")

\* The digest object names the digest of the archive object.
PairMatches ==
    /\ TwinKey \in DOMAIN store /\ TwinSidecar \in DOMAIN store
    /\ Split(store[TwinSidecar].body) # <<>>
    /\ Split(store[TwinSidecar].body)[1] = Sha256Hex(store[TwinKey].body)

\* The object left under a key is the second run's upload.
XArchiveLast == store[TwinKey].LastModified = XTime("UPLOAD_ARCHIVE")
XDigestLast == store[TwinSidecar].LastModified = XTime("UPLOAD_DIGEST")

\* C26 as stated: after two overlapping runs of one label and date have both
\* completed successfully, the digest object left matches the archive object
\* left.
C26_PairAlwaysMatches == BothCompleted => PairMatches

\* C26 amended: after both runs have completed successfully, each key holds
\* the upload that completed last; the pair matches whenever both objects left
\* are uploads of the same run.
C26_LastUploadWins ==
    BothCompleted =>
        /\ TwinKey \in DOMAIN store /\ TwinSidecar \in DOMAIN store
        /\ XArchiveLast => store[TwinKey].body = xcwd[archive]
        /\ XDigestLast => store[TwinSidecar].body = xcwd[checksum_file]
        /\ (XArchiveLast <=> XDigestLast) => PairMatches

\* Both runs completed, they packed different bytes, and both objects left are
\* the second run's.
C26_Witness ==
    /\ BothCompleted
    /\ ~bcleanup /\ cwd[archive] # xcwd[archive]
    /\ XArchiveLast /\ XDigestLast
    /\ store[TwinKey].LastModified < store[TwinSidecar].LastModified


\* ---------------------------------------------------------------------------
\* setup/30_restore_models.py: restore/restore-models.py run as a subprocess
\* ---------------------------------------------------------------------------

WrapKey == RestoreKey("restore-models", 1)

\* The wrapper is about to run; the bucket holds one model backup with or
\* without its sidecar, or none.
InitWrapper ==
    /\ IdleFind /\ IdleBackup
    /\ IdlePeer /\ IdleDigest /\ IdleArchive /\ IdleRun /\ IdleTwin /\ IdleDl
    /\ clock = MaxTime + 1
    /\ \E a \in ArchiveObjects, s \in SidecarObjects(Basename(WrapKey)) :
          store = AddObject(AddObject(Empty, WrapKey, a), WrapKey \o <<Sha256Ext>>, s)
    /\ rscript = "restore-models" /\ rpc = "idle" /\ rkey = NoneKey
    /\ tmp = Empty /\ have_checksum = TRUE /\ rcalls = <<>> /\ rlog = <<>>
    /\ rret = "running" /\ rexit = -1 /\ rhome = <<>>
    /\ wpc = "run" /\ wlog = <<>> /\ wexit = -1

WrapOthersIdle ==
    UNCHANGED <<storeVars, findVars, backupVars, peerVars, digestVars, archiveVars,
                runVars, twinVars, dlVars>>

\* print("==> [4/7] Restoring model data..."); subprocess.run starts the child,
\* or raises when python3 cannot be started.
W_Run ==
    /\ wpc = "run"
    /\ \/ /\ rpc' = "start"
          /\ wpc' = "wait"
          /\ wlog' = Append(wlog, "Restoring model data...")
          /\ UNCHANGED wexit
       \/ /\ wpc' = "exited" /\ wexit' = 1
          /\ wlog' = Append(wlog, "Restoring model data...")
          /\ UNCHANGED rpc
    /\ UNCHANGED <<rscript, rkey, tmp, have_checksum, rcalls, rlog, rret, rexit, rhome>>
    /\ WrapOthersIdle

\* subprocess.run(..., check=True) returns when the child has exited: it
\* raises CalledProcessError on a nonzero status, else the wrapper prints
\* "Model restore complete." and main returns.
W_Return ==
    /\ wpc = "wait" /\ rpc = "exited"
    /\ wpc' = "exited"
    /\ IF rexit = 0
       THEN wlog' = Append(wlog, "Model restore complete.") /\ wexit' = 0
       ELSE UNCHANGED wlog /\ wexit' = 1
    /\ UNCHANGED restoreVars
    /\ WrapOthersIdle

NextWrapper ==
    \/ W_Run
    \/ R_FindLatest
    \/ R_DownloadArchive
    \/ R_DownloadChecksum
    \/ R_Verify
    \/ R_Extract
    \/ W_Return

SpecWrapper == InitWrapper /\ [][NextWrapper]_vars

\* C28: the wrapper prints "Model restore complete" and ends with status 0
\* only if the restore run it started extracted a backup; when that run found
\* no backup or detected a checksum mismatch, the wrapper fails.
C28_CompleteOnlyIfExtracted ==
    wpc = "exited" =>
        /\ (InLog(wlog, "Model restore complete.") \/ wexit = 0) => Extracted
        /\ (NoBackupFound \/ InLog(rlog, "Checksum mismatch! Aborting.")) => wexit # 0


\* ---------------------------------------------------------------------------
\* Claims on a sidecar without a token, and on how restore runs end
\* ---------------------------------------------------------------------------

\* The run downloaded the sidecar and the local copy holds no
\* whitespace-delimited token.
TokenlessSidecar ==
    /\ rkey # NoneKey
    /\ MadeWith("download", checksum_key(rkey), {"ok"}) # {}
    /\ local_checksum(rkey) \in DOMAIN tmp
    /\ Split(tmp[local_checksum(rkey)]) = <<>>

\* C29: when the sidecar was downloaded but holds no whitespace-delimited
\* token (it is empty or only whitespace), the restore run does not extract
\* the archive and does not report success; it ends with a failure status.
C29_TokenlessSidecarStops ==
    TokenlessSidecar =>
        /\ ~ExtractionInvoked
        /\ ~SuccessReported
        /\ rhome = <<>>
        /\ rpc = "exited" => rexit # 0

\* A run that ended on a downloaded sidecar holding only a newline.
C29_Witness ==
    /\ rpc = "exited"
    /\ TokenlessSidecar
    /\ tmp[local_checksum(rkey)] = <<"\n">>
    /\ rret = "raised"


\* The four ways a restore run ends.
EndedNoBackup ==
    /\ InLog(rlog, "No backup found.") /\ rkey = NoneKey
    /\ rret = FailureValue(rscript)
    /\ rscript # "restore-models" => RunFailed
EndedMismatch ==
    /\ InLog(rlog, "Checksum mismatch! Aborting.")
    /\ rret = FailureValue(rscript)
    /\ rscript # "restore-models" => RunFailed
EndedRaised == rret = "raised" /\ rexit = 1
EndedSuccess ==
    /\ Extracted /\ InLog(rlog, "Restore complete")
    /\ rret = SuccessValue(rscript) /\ rexit = 0

\* Which of the four the run ended in.
Endings ==
    {o \in {"no backup", "mismatch", "raised", "success"} :
        \/ o = "no backup" /\ EndedNoBackup
        \/ o = "mismatch" /\ EndedMismatch
        \/ o = "raised" /\ EndedRaised
        \/ o = "success" /\ EndedSuccess}

\* C30: every restore run terminates, and in exactly one of four ways: no
\* backup found, checksum mismatch, a propagated error, or success after
\* extraction; nothing is extracted in the first two, and no step (listing,
\* either download, verification, extraction) is made a second time.
C30_TerminatesOneOfFour ==
    /\ <>(rpc = "exited")
    /\ [](rpc = "exited" =>
            /\ Cardinality(Endings) = 1
            /\ (EndedNoBackup \/ EndedMismatch) => ~ExtractionInvoked)
    /\ [](/\ Cardinality(Made("find_latest_backup")) <= 1
          /\ Cardinality(Made("download")) <= 2
          /\ Cardinality(Made("verify_sha256")) <= 1
          /\ Cardinality(Made("extract_archive_to_home")) <= 1)

\* A run that ended in success after a verified extraction.
C30_Witness ==
    /\ rpc = "exited" /\ EndedSuccess
    /\ InLog(rlog, "Checksum OK.")
    /\ Len(rcalls) = 5

====
